---- MODULE Spec2Model ----
(***************************************************************************)
(* Model of the run-length codec of preCMGsim (compress_array_to_cmg_format *)
(* and its two decoders), of the sparse-to-dense porosity scatter, and of   *)
(* the comparison of arrays and files (compare_arrays, compare_files and    *)
(* the readers read_file_by_extension chooses from), of the GRDECL reader   *)
(* line by line, of extract_coordinates_from_fgrid, of the scatter without  *)
(* checks (generate_full_porosity_data_simple) and of the data-point        *)
(* counter count_cmg_data_points_accurate.                                  *)
(*                                                                          *)
(* Numbers.  A float is modelled as an integer count of units of 5e-9, so   *)
(* that 1e-6 (the resolution of the "%.6f" text) is Micro units and 1e-8    *)
(* (numpy's default absolute tolerance) is ATOL units.  Text is modelled as *)
(* a sequence of one-character strings.                                     *)
(***************************************************************************)
EXTENDS Integers, Sequences, FiniteSets, TLC

VARIABLES
    array,             \* compress_array_to_cmg_format: the input array
    max_line_length,   \* compress_array_to_cmg_format: the line width
    i,                 \* compress_array_to_cmg_format: scan position (0-based)
    current_line,      \* compress_array_to_cmg_format: the open line
    compressed_lines,  \* compress_array_to_cmg_format: the closed lines
    epc,               \* position of the encoder: "idle", "loop", "returned", "written"
    items,             \* the tokens and line breaks a hand-written document was built from
    file_exists,       \* whether the .dat file exists
    file,              \* the lines of the .dat file
    dres,              \* outcome of decompress_cmg_format_to_array(file)
    rres,              \* outcome of read_cmg_format_file(file)
    fn,                \* the scatter entry point that is running
    use_compression,   \* generate_full_porosity_data: the parameter
    actid_exists,      \* whether actid_file exists
    poro_exists,       \* whether poro_file exists
    active_cell_ids,   \* the content of actid_file
    porosity_values,   \* the content of poro_file
    total_cells,       \* the parameter total_cells
    spc,               \* position of the scatter
    full_porosity,     \* the dense array (<<>> before it is created)
    serr,              \* the exception the scatter raised
    npy_saved,         \* whether np.save has written output_file
    dat_written,       \* whether the .dat file has been written
    array1,            \* compare_arrays: the first array
    array2,            \* compare_arrays: the second array
    tolerance,         \* compare_arrays, compare_files: the parameter tolerance
    file1_name,        \* compare_arrays: the name reported for the first array
    file2_name,        \* compare_arrays: the name reported for the second array
    cpc,               \* position of the comparison: "idle", "start", "returned"
    cres,              \* the dict compare_arrays returned (<<>> before it returns)
    file1_path,        \* compare_files, read_file_by_extension: the first path
    file2_path,        \* compare_files: the second path
    file1,             \* the file at file1_path
    file2,             \* the file at file2_path
    fpc,               \* position of the file operation: "idle", "start", ..., "compared"
    called,            \* the readers called so far, in call order
    rfres,             \* outcome of the last call of read_file_by_extension
    fres,              \* outcome of compare_files(file1_path, file2_path)
    gdecl_file,        \* read_gdecl_format_file: the file at file_path
    line_num,          \* read_gdecl_format_file: the number of lines read so far
    in_data_section,   \* read_gdecl_format_file: the flag in_data_section
    gdecl_values,      \* read_gdecl_format_file: the list values
    gpc,               \* position of the GRDECL reader: "idle", "start", "loop", "done"
    gres,              \* outcome of read_gdecl_format_file(file_path)
    fgrid_lines,       \* extract_coordinates_from_fgrid: lines = f.readlines()
    fgrid_i,           \* extract_coordinates_from_fgrid: the line index i
    keyword,           \* extract_coordinates_from_fgrid: the keyword of the last header
    n_values,          \* extract_coordinates_from_fgrid: the count the last header declares
    fgrid_values,      \* extract_coordinates_from_fgrid: the list values of the last record
    coords_data,       \* extract_coordinates_from_fgrid: the rows of coords_df
    corners_data,      \* extract_coordinates_from_fgrid: the rows of corners_df
    warnings,          \* extract_coordinates_from_fgrid: the warnings printed so far
    xpc,               \* position of the extraction: "idle", "loop", "collect", "returned", "raised"
    data_points        \* outcome of count_cmg_data_points_accurate(file)

codec_vars == <<array, max_line_length, i, current_line, compressed_lines, epc,
                items, file_exists, file, dres, rres>>

scatter_vars == <<fn, use_compression, actid_exists, poro_exists, active_cell_ids,
                  porosity_values, total_cells, spc, full_porosity, serr,
                  npy_saved, dat_written>>

compare_vars == <<array1, array2, tolerance, file1_name, file2_name, cpc, cres>>

files_vars == <<file1_path, file2_path, file1, file2, fpc, called, rfres, fres>>

gdecl_vars == <<gdecl_file, line_num, in_data_section, gdecl_values, gpc, gres>>

fgrid_vars == <<fgrid_lines, fgrid_i, keyword, n_values, fgrid_values, coords_data,
                corners_data, warnings, xpc>>

vars == <<codec_vars, scatter_vars, compare_vars, files_vars, gdecl_vars, fgrid_vars,
          data_points>>

----------------------------------------------------------------------------
(* Bounds of the model *)

MaxLen == 3

(* Units of 5e-9 in 1e-6, the last digit "%.6f" prints *)
Micro == 200

(* numpy.isclose's default atol = 1e-8, in units of 5e-9 *)
ATOL == 2

Abs(x) == IF x < 0 THEN -x ELSE x

Pow10(n) == CASE n = 0 -> 1 [] n = 1 -> 10 [] n = 2 -> 100 [] n = 3 -> 1000
              [] n = 4 -> 10000 [] n = 5 -> 100000 [] n = 6 -> 1000000
              [] n = 7 -> 10000000 [] n = 8 -> 100000000 [] n = 9 -> 1000000000

(* the values 1.0, 2.5, 1.5 in units *)
One == 1000000 * Micro
F(int, micro) == (int * 1000000 + micro) * Micro

(* The element values the encoder is run on: 0, 5e-9, 1e-7, -7e-7, 1.0,    *)
(* 1.000000005, 2.5, -1.5.  None lies exactly half way between two         *)
(* six-decimal numbers.                                                    *)
Values == {0, 1, 20, -140, One, One + 1, F(2, 500000), -F(1, 500000)}

ExampleArray == <<0, 0, 0, One, One, F(2, 500000)>>

Arrays == UNION {[1..n -> Values] : n \in 0..MaxLen} \cup {ExampleArray}

Widths == {0, 1, 9, 12, 80}

----------------------------------------------------------------------------
(* Text *)

Digits == <<"0", "1", "2", "3", "4", "5", "6", "7", "8", "9">>

DigitChar(d) == Digits[d + 1]

IsDigit(c) == \E d \in 1..10 : Digits[d] = c

DigitVal(c) == (CHOOSE d \in 1..10 : Digits[d] = c) - 1

(* str(n) of a non-negative int, as f"{count}" prints it *)
RECURSIVE NatStr(_)
NatStr(n) == IF n < 10 THEN <<DigitChar(n)>>
             ELSE NatStr(n \div 10) \o <<DigitChar(n % 10)>>

(* |v| rounded to a whole number of 1e-6, as "%.6f" rounds (ties to even) *)
Round6(v) ==
    LET a == Abs(v)
        q == a \div Micro
        r == a % Micro
    IN  IF 2 * r > Micro THEN q + 1
        ELSE IF 2 * r < Micro THEN q
        ELSE IF q % 2 = 0 THEN q ELSE q + 1

(* a formatter that cuts the digits after the sixth instead of rounding *)
Format6_Truncating(value) ==
    LET m == Abs(value) \div Micro
    IN  (IF value < 0 THEN <<"-">> ELSE <<>>)
        \o NatStr(m \div 1000000) \o <<".">>
        \o [k \in 1..6 |-> DigitChar((m \div Pow10(6 - k)) % 10)]

(* f"{value:.6f}" *)
Format6(value) ==
    LET m == Round6(value)
    IN  (IF value < 0 THEN <<"-">> ELSE <<>>)
        \o NatStr(m \div 1000000) \o <<".">>
        \o [k \in 1..6 |-> DigitChar((m \div Pow10(6 - k)) % 10)]

(* np.isclose(a, b, rtol=1e-10): |a - b| <= atol + rtol * |b| with numpy's  *)
(* default atol = 1e-8.  In whole units the relative term is |b| / 10^10.  *)
IsClose(a, b) == Abs(a - b) <= ATOL + ((Abs(b) \div 100000) \div 100000)

(* no scatter is running *)
ScatterIdle ==
    /\ fn = "none"
    /\ use_compression = FALSE
    /\ actid_exists = FALSE
    /\ poro_exists = FALSE
    /\ active_cell_ids = <<>>
    /\ porosity_values = <<>>
    /\ total_cells = 1
    /\ spc = "idle"
    /\ full_porosity = <<>>
    /\ serr = [kind |-> "none", a |-> 0, b |-> 0, total |-> 0]
    /\ npy_saved = FALSE
    /\ dat_written = FALSE

(* The numbers compare_arrays works on are modelled as exact decimals with *)
(* a resolution of 1e-10: Num(hi, lo) is hi * 0.1 + lo * 1e-10 with        *)
(* 0 <= lo < Lim.  Only finite values are modelled.                        *)
Lim == Pow10(9)

Num(hi, lo) == [hi |-> hi, lo |-> lo]

Zero == Num(0, 0)

(* the number that v units of 5e-9 are *)
NumOfUnits(v) == Num(v \div (One \div 10), (v % (One \div 10)) * 50)

NumsOfUnits(seq) == [k \in 1..Len(seq) |-> NumOfUnits(seq[k])]

NumAdd(a, b) ==
    IF a.lo + b.lo >= Lim THEN Num(a.hi + b.hi + 1, a.lo + b.lo - Lim)
    ELSE Num(a.hi + b.hi, a.lo + b.lo)

NumNeg(a) == IF a.lo = 0 THEN Num(-a.hi, 0) ELSE Num(-a.hi - 1, Lim - a.lo)

NumSub(a, b) == NumAdd(a, NumNeg(b))

NumAbs(a) == IF a.hi < 0 THEN NumNeg(a) ELSE a

NumGt(a, b) == a.hi > b.hi \/ (a.hi = b.hi /\ a.lo > b.lo)

(* no comparison is running *)
CompareIdle ==
    /\ array1 = <<>>
    /\ array2 = <<>>
    /\ tolerance = Zero
    /\ file1_name = "File 1"
    /\ file2_name = "File 2"
    /\ cpc = "idle"
    /\ cres = <<>>

(* a path without a file *)
NoFile == [exists |-> FALSE, binary |-> FALSE, data |-> <<>>, lines |-> <<>>]

(* no file operation is running *)
FilesIdle ==
    /\ file1_path = <<>>
    /\ file2_path = <<>>
    /\ file1 = NoFile
    /\ file2 = NoFile
    /\ fpc = "idle"
    /\ called = <<>>
    /\ rfres = [status |-> "none", values |-> <<>>, error |-> ""]
    /\ fres = [status |-> "none", error |-> "", result |-> <<>>]

(* no GRDECL file is being read *)
GdeclIdle ==
    /\ gdecl_file = NoFile
    /\ line_num = 0
    /\ in_data_section = FALSE
    /\ gdecl_values = <<>>
    /\ gpc = "idle"
    /\ gres = [status |-> "none", values |-> <<>>, error |-> ""]

(* no FGRID file is being read *)
FgridIdle ==
    /\ fgrid_lines = <<>>
    /\ fgrid_i = 0
    /\ keyword = "none"
    /\ n_values = 0
    /\ fgrid_values = <<>>
    /\ coords_data = <<>>
    /\ corners_data = <<>>
    /\ warnings = <<>>
    /\ xpc = "idle"

(* count_cmg_data_points_accurate has not returned *)
NotCounted == [returned |-> FALSE, value |-> 0]

(* no data points are being counted *)
CountIdle == data_points = NotCounted

----------------------------------------------------------------------------
(* compress_array_to_cmg_format *)

(* a run scan that compares with == instead of np.isclose *)
RECURSIVE CountRun_ExactEquality(_, _, _)
CountRun_ExactEquality(arr, p, count) ==
    IF p + count < Len(arr) /\ arr[p + count + 1] = arr[p + 1]
    THEN CountRun_ExactEquality(arr, p, count + 1)
    ELSE count

(* the inner while loop: the number of elements, from 0-based position p,  *)
(* that are close to the element at p                                      *)
RECURSIVE CountRun(_, _, _)
CountRun(arr, p, count) ==
    IF p + count < Len(arr) /\ IsClose(arr[p + count + 1], arr[p + 1])
    THEN CountRun(arr, p, count + 1)
    ELSE count

(* a token maker without the special case for zero *)
Token_ZeroAsDecimal(count, value) ==
    IF count = 1 THEN Format6(value)
    ELSE NatStr(count) \o <<"*">> \o Format6(value)

(* the token of a run of count elements whose first element is value *)
Token(count, value) ==
    IF IsClose(value, 0)
    THEN IF count = 1 THEN <<"0">> ELSE NatStr(count) \o <<"*", "0">>
    ELSE IF count = 1 THEN Format6(value)
         ELSE NatStr(count) \o <<"*">> \o Format6(value)

(* a wrap test that closes the line one character early *)
ClosesLine_AtLimit(line, token, width) ==
    line # <<>> /\ Len(line \o <<" ">> \o token) >= width

(* does the token start a new line? *)
ClosesLine(line, token, width) ==
    line # <<>> /\ Len(line \o <<" ">> \o token) > width

(* one iteration of the outer while loop *)
EncodeRun ==
    /\ epc = "loop"
    /\ i < Len(array)
    /\ LET value == array[i + 1]
           count == CountRun(array, i, 1)
           token == Token(count, value)
       IN  /\ IF ClosesLine(current_line, token, max_line_length)
              THEN /\ compressed_lines' = Append(compressed_lines, current_line)
                   /\ current_line' = token
              ELSE /\ compressed_lines' = compressed_lines
                   /\ current_line' = IF current_line # <<>>
                                      THEN current_line \o <<" ">> \o token
                                      ELSE token
           /\ i' = i + count
    /\ UNCHANGED <<array, max_line_length, epc, items, file_exists, file, dres, rres,
                   scatter_vars, compare_vars, files_vars,
                   gdecl_vars, fgrid_vars, data_points>>

(* the loop ends: the last line is added and the lines are returned *)
EncodeReturn ==
    /\ epc = "loop"
    /\ i >= Len(array)
    /\ compressed_lines' = IF current_line # <<>>
                           THEN Append(compressed_lines, current_line)
                           ELSE compressed_lines
    /\ epc' = "returned"
    /\ UNCHANGED <<array, max_line_length, i, current_line, items, file_exists, file,
                   dres, rres, scatter_vars, compare_vars, files_vars,
                   gdecl_vars, fgrid_vars, data_points>>

(* header = "**FULL_POROSITY_ALL" *)
HeaderLine == <<"*", "*", "F", "U", "L", "L", "_", "P", "O", "R", "O", "S",
                "I", "T", "Y", "_", "A", "L", "L">>

(* the caller writes the header and then the returned lines to the .dat file *)
WriteFile ==
    /\ epc = "returned"
    /\ file' = <<HeaderLine \o <<"\n">>>>
                \o [k \in 1..Len(compressed_lines) |-> compressed_lines[k] \o <<"\n">>]
    /\ file_exists' = TRUE
    /\ epc' = "written"
    /\ UNCHANGED <<array, max_line_length, i, current_line, compressed_lines,
                   items, dres, rres, scatter_vars, compare_vars, files_vars,
                   gdecl_vars, fgrid_vars, data_points>>

----------------------------------------------------------------------------
(* decompress_cmg_format_to_array and read_cmg_format_file *)

IsSpace(c) == c \in {" ", "\n"}

(* str.strip() *)
RECURSIVE LStrip(_)
LStrip(s) == IF s # <<>> /\ IsSpace(Head(s)) THEN LStrip(Tail(s)) ELSE s

RECURSIVE RStrip(_)
RStrip(s) == IF s # <<>> /\ IsSpace(s[Len(s)])
             THEN RStrip(SubSeq(s, 1, Len(s) - 1)) ELSE s

Strip(s) == RStrip(LStrip(s))

(* the length of the longest prefix of s without a blank *)
RECURSIVE WordLen(_)
WordLen(s) == IF s = <<>> \/ IsSpace(Head(s)) THEN 0 ELSE 1 + WordLen(Tail(s))

(* str.split(): the maximal blank-free pieces, in order *)
RECURSIVE Split(_)
Split(s) ==
    LET t == LStrip(s)
        n == WordLen(t)
    IN  IF t = <<>> THEN <<>>
        ELSE <<SubSeq(t, 1, n)>> \o Split(SubSeq(t, n + 1, Len(t)))

(* line.startswith('**') *)
StartsWithComment(line) == Len(line) >= 2 /\ line[1] = "*" /\ line[2] = "*"

(* the length of the longest prefix of s made of digits: a greedy \d* *)
RECURSIVE DigitsLen(_)
DigitsLen(s) == IF s # <<>> /\ IsDigit(Head(s)) THEN 1 + DigitsLen(Tail(s)) ELSE 0

(* int() of a string of digits *)
RECURSIVE NatVal(_)
NatVal(s) == IF s = <<>> THEN 0
             ELSE 10 * NatVal(SubSeq(s, 1, Len(s) - 1)) + DigitVal(s[Len(s)])

(* the text group 2 of the pattern takes from s: an optional sign, digits, *)
(* an optional point, digits; each part greedy and each may be empty       *)
NumberPrefix(s) ==
    LET sg == IF s # <<>> /\ s[1] \in {"+", "-"} THEN 1 ELSE 0
        n1 == DigitsLen(SubSeq(s, sg + 1, Len(s)))
        dot == IF Len(s) > sg + n1 /\ s[sg + n1 + 1] = "." THEN 1 ELSE 0
        n2 == DigitsLen(SubSeq(s, sg + n1 + dot + 1, Len(s)))
    IN  SubSeq(s, 1, sg + n1 + dot + n2)

(* re.match of the run pattern: one or more digits (group 1), a star, then *)
(* group 2.  The match is anchored at the start of the token only: text    *)
(* after group 2 is ignored.                                               *)
Match(token) ==
    LET d == DigitsLen(token)
    IN  IF d >= 1 /\ Len(token) > d /\ token[d + 1] = "*"
        THEN [matched |-> TRUE, group1 |-> SubSeq(token, 1, d),
              group2 |-> NumberPrefix(SubSeq(token, d + 2, Len(token)))]
        ELSE [matched |-> FALSE, group1 |-> <<>>, group2 |-> <<>>]

(* the first nine fractional digits of s as a number of 1e-9 *)
FracNano(s) ==
    LET n == IF Len(s) < 9 THEN Len(s) ELSE 9
    IN  NatVal(SubSeq(s, 1, n)) * Pow10(9 - n)

(* float(s) for the decimal texts of the model (no exponent, inf or nan):   *)
(* an optional sign, then digits with an optional point, at least one digit *)
(* in all; anything else is a ValueError                                    *)
PyFloat(s) ==
    LET sg == IF s # <<>> /\ s[1] \in {"+", "-"} THEN 1 ELSE 0
        body == SubSeq(s, sg + 1, Len(s))
        n1 == DigitsLen(body)
        rest == SubSeq(body, n1 + 1, Len(body))
        dot == rest # <<>> /\ rest[1] = "."
        frac == IF dot THEN Tail(rest) ELSE <<>>
        n2 == DigitsLen(frac)
        ok == /\ n1 + n2 >= 1
              /\ IF dot THEN n2 = Len(frac) ELSE rest = <<>>
        mag == NatVal(SubSeq(body, 1, n1)) * One + (FracNano(frac) \div 5)
    IN  IF ok THEN [ok |-> TRUE, value |-> IF sg = 1 /\ s[1] = "-" THEN -mag ELSE mag]
        ELSE [ok |-> FALSE, value |-> 0]

(* [value] * count *)
Repeat(value, count) == [k \in 1..count |-> value]

(* the body of "for token in tokens": the values the token adds, or the    *)
(* ValueError that float(match.group(2)), outside the try, lets escape     *)
DecodeToken(token) ==
    LET m == Match(token)
    IN  IF m.matched
        THEN LET f == PyFloat(m.group2)
             IN  IF f.ok
                 THEN [raised |-> FALSE, values |-> Repeat(f.value, NatVal(m.group1))]
                 ELSE [raised |-> TRUE, values |-> <<>>]
        ELSE LET f == PyFloat(token)
             IN  IF f.ok THEN [raised |-> FALSE, values |-> <<f.value>>]
                 ELSE [raised |-> FALSE, values |-> <<>>]

RECURSIVE DecodeTokens(_)
DecodeTokens(tokens) ==
    IF tokens = <<>> THEN [raised |-> FALSE, values |-> <<>>]
    ELSE LET h == DecodeToken(Head(tokens))
         IN  IF h.raised THEN h
             ELSE LET t == DecodeTokens(Tail(tokens))
                  IN  [raised |-> t.raised, values |-> h.values \o t.values]

(* a line loop that skips blank lines only *)
DecodeLine_NoCommentSkip(raw) ==
    LET line == Strip(raw)
    IN  IF line = <<>> THEN [raised |-> FALSE, values |-> <<>>]
        ELSE DecodeTokens(Split(line))

(* the body of "for line in f": blank and '**' lines are skipped *)
DecodeLine(raw) ==
    LET line == Strip(raw)
    IN  IF line = <<>> \/ StartsWithComment(line)
        THEN [raised |-> FALSE, values |-> <<>>]
        ELSE DecodeTokens(Split(line))

RECURSIVE DecodeLines(_)
DecodeLines(lines) ==
    IF lines = <<>> THEN [raised |-> FALSE, values |-> <<>>]
    ELSE LET h == DecodeLine(Head(lines))
         IN  IF h.raised THEN h
             ELSE LET t == DecodeLines(Tail(lines))
                  IN  [raised |-> t.raised, values |-> h.values \o t.values]

NoResult == [status |-> "none", values |-> <<>>, error |-> ""]
Returned(v) == [status |-> "returned", values |-> v, error |-> ""]
Raised(e) == [status |-> "raised", values |-> <<>>, error |-> e]

decompress_cmg_format_to_array(exists, lines) ==
    IF ~exists THEN Raised("FileNotFoundError")
    ELSE LET r == DecodeLines(lines)
         IN  IF r.raised THEN Raised("ValueError: could not convert string to float")
             ELSE Returned(r.values)

(* a reader that returns the empty array of a file without values *)
read_cmg_format_file_EmptyReturned(exists, lines) ==
    IF ~exists THEN Raised("FileNotFoundError")
    ELSE LET r == DecodeLines(lines)
         IN  IF r.raised THEN Raised("ValueError: could not convert string to float")
             ELSE Returned(r.values)

read_cmg_format_file(exists, lines) ==
    IF ~exists THEN Raised("FileNotFoundError")
    ELSE LET r == DecodeLines(lines)
         IN  IF r.raised THEN Raised("ValueError: could not convert string to float")
             ELSE IF r.values = <<>> THEN Raised("ValueError: No numerical values found")
             ELSE Returned(r.values)

(* a caller decodes the file with decompress_cmg_format_to_array *)
Decompress ==
    /\ epc \in {"idle", "written"}
    /\ dres = NoResult
    /\ dres' = decompress_cmg_format_to_array(file_exists, file)
    /\ UNCHANGED <<array, max_line_length, i, current_line, compressed_lines, epc,
                   items, file_exists, file, rres, scatter_vars, compare_vars, files_vars,
                   gdecl_vars, fgrid_vars, data_points>>

(* a caller reads the file with read_cmg_format_file *)
ReadCmg ==
    /\ epc \in {"idle", "written"}
    /\ rres = NoResult
    /\ rres' = read_cmg_format_file(file_exists, file)
    /\ UNCHANGED <<array, max_line_length, i, current_line, compressed_lines, epc,
                   items, file_exists, file, dres, scatter_vars, compare_vars, files_vars,
                   gdecl_vars, fgrid_vars, data_points>>

----------------------------------------------------------------------------
(* The codec run on an array: encode, write the file, decode it *)

InitCodec ==
    /\ array \in Arrays
    /\ max_line_length \in Widths
    /\ i = 0
    /\ current_line = <<>>
    /\ compressed_lines = <<>>
    /\ epc = "loop"
    /\ items = <<>>
    /\ file_exists = FALSE
    /\ file = <<>>
    /\ dres = NoResult
    /\ rres = NoResult
    /\ ScatterIdle
    /\ CompareIdle
    /\ FilesIdle
    /\ GdeclIdle
    /\ FgridIdle
    /\ CountIdle

NextCodec == EncodeRun \/ EncodeReturn \/ WriteFile \/ Decompress \/ ReadCmg

SpecCodec == InitCodec /\ [][NextCodec]_vars

----------------------------------------------------------------------------
(* Properties of the encoder and of the round trip, under SpecCodec *)

EncoderDone == epc \in {"returned", "written"}

RECURSIVE Flatten(_)
Flatten(lines) == IF lines = <<>> THEN <<>>
                  ELSE Split(Head(lines)) \o Flatten(Tail(lines))

(* the tokens of the returned lines, line by line and left to right *)
EmittedTokens == Flatten(compressed_lines)

(* position of the star of a token, 0 when it has none *)
StarPos(tok) ==
    IF \E p \in 1..Len(tok) : tok[p] = "*"
    THEN CHOOSE p \in 1..Len(tok) : tok[p] = "*" /\ \A q \in 1..(p - 1) : tok[q] # "*"
    ELSE 0

(* the run length a token announces, and the text of its value *)
TokCount(tok) == IF StarPos(tok) = 0 THEN 1 ELSE NatVal(SubSeq(tok, 1, StarPos(tok) - 1))
TokText(tok) == SubSeq(tok, StarPos(tok) + 1, Len(tok))

RECURSIVE SumCounts(_, _)
SumCounts(toks, k) == IF k = 0 THEN 0 ELSE SumCounts(toks, k - 1) + TokCount(toks[k])

(* 1-based position in array of the first element of the run of token k *)
RunStart(toks, k) == SumCounts(toks, k - 1) + 1

ExampleLine == <<"3", "*", "0", " ", "2", "*", "1", ".", "0", "0", "0", "0", "0", "0",
                 " ", "2", ".", "5", "0", "0", "0", "0", "0">>

(* C2: when the encoder has returned, its tokens, read in order, are one   *)
(* token per run: token k announces the length of run k and is the token   *)
(* of that length and of the run's first element, every element of the run *)
(* is equal to the first under the encoder's comparison, the element after *)
(* the run is not, the lengths sum to len(array), an empty array gives no  *)
(* lines, and [0,0,0,1.0,1.0,2.5] at width 80 gives the one line           *)
(* "3*0 2*1.000000 2.500000".                                              *)
C2_OneTokenPerRun ==
    EncoderDone =>
        LET toks == EmittedTokens
        IN  /\ SumCounts(toks, Len(toks)) = Len(array)
            /\ \A k \in 1..Len(toks) :
                 LET c == TokCount(toks[k])
                     s == RunStart(toks, k)
                 IN  /\ c >= 1
                     /\ s + c - 1 <= Len(array)
                     /\ toks[k] = Token(c, array[s])
                     /\ \A j \in s..(s + c - 1) : IsClose(array[j], array[s])
                     /\ s + c <= Len(array) => ~IsClose(array[s + c], array[s])
            /\ array = <<>> => compressed_lines = <<>>
            /\ (array = ExampleArray /\ max_line_length = 80)
                  => compressed_lines = <<ExampleLine>>

C2_Witness ==
    /\ EncoderDone
    /\ array = ExampleArray
    /\ max_line_length = 80
    /\ compressed_lines = <<ExampleLine>>

ZeroToken(c) == IF c = 1 THEN <<"0">> ELSE NatStr(c) \o <<"*", "0">>

ZeroText6 == <<"0", ".", "0", "0", "0", "0", "0", "0">>

(* a text with an optional minus sign, digits, a point and six digits *)
SixDigitShape(t) ==
    LET b == IF t # <<>> /\ t[1] = "-" THEN Tail(t) ELSE t
    IN  /\ Len(b) >= 8
        /\ b[Len(b) - 6] = "."
        /\ \A p \in 1..Len(b) : p # Len(b) - 6 => IsDigit(b[p])

(* t is the six-decimal text of the number nearest to v *)
IsSixDecimalsOf(t, v) ==
    /\ SixDigitShape(t)
    /\ PyFloat(t).value % Micro = 0
    /\ 2 * Abs(PyFloat(t).value - v) <= Micro
    /\ (t[1] = "-") <=> (v < 0)

RECURSIVE Join(_)
Join(toks) == IF toks = <<>> THEN <<>>
              ELSE IF Len(toks) = 1 THEN toks[1]
              ELSE toks[1] \o <<" ">> \o Join(Tail(toks))

(* C4: in every state of the encoder, each closed line is its tokens       *)
(* joined by single blanks and is not empty; a line was closed only        *)
(* because the next token, after one blank, would have made it longer than *)
(* max_line_length, and no token was appended that made its line longer    *)
(* than that: a line of two or more tokens has at most max_line_length     *)
(* characters and a longer line holds exactly one token.                   *)
C4_LineWrapping ==
    LET open == IF epc = "loop" /\ current_line # <<>> THEN <<current_line>> ELSE <<>>
        lines == compressed_lines \o open
    IN  \A k \in 1..Len(lines) :
          LET toks == Split(lines[k])
          IN  /\ lines[k] # <<>>
              /\ toks # <<>>
              /\ lines[k] = Join(toks)
              /\ k < Len(lines) =>
                    Len(lines[k]) + 1 + Len(Split(lines[k + 1])[1]) > max_line_length
              /\ Len(toks) >= 2 => Len(lines[k]) <= max_line_length
              /\ Len(lines[k]) > max_line_length => Len(toks) = 1

(* a line of two tokens closed because the third token did not fit *)
C4_Witness ==
    /\ EncoderDone
    /\ max_line_length = 12
    /\ Len(compressed_lines) = 2
    /\ Len(Split(compressed_lines[1])) = 2
    /\ Len(compressed_lines[1]) <= 12
    /\ Len(compressed_lines[1]) + 1 + Len(compressed_lines[2]) > 12

(* the comparison of the claim: relative only, |a - b| <= 1e-10 * |b| *)
RelClose(a, b) == Abs(a - b) <= ((Abs(b) \div 100000) \div 100000)

(* C5 as stated: the elements of a run are equal to its first element      *)
(* under the purely relative test, and a run is printed as a zero token    *)
(* only when its value is exactly 0.                                       *)
C5_Original ==
    EncoderDone =>
        LET toks == EmittedTokens
        IN  \A k \in 1..Len(toks) :
              LET c == TokCount(toks[k])
                  s == RunStart(toks, k)
              IN  /\ \A j \in s..(s + c - 1) : RelClose(array[j], array[s])
                  /\ TokText(toks[k]) = <<"0">> => array[s] = 0

(* the decoded element is the six-decimal number nearest to v *)
IsRounded(d, v) == d % Micro = 0 /\ 2 * Abs(d - v) <= Micro

(* every element is a whole number of 1e-6 and no two unequal elements are *)
(* equal under the encoder's comparison                                    *)
ExactlyPrintable(x) ==
    /\ \A j \in 1..Len(x) : x[j] % Micro = 0
    /\ \A j, k \in 1..Len(x) : x[j] # x[k] => ~IsClose(x[j], x[k])

(* the decoded sequence d of the document made from x *)
RoundTripOf(d, x) ==
    /\ Len(d) = Len(x)
    /\ \A j \in 1..Len(x) :
         \E k \in 1..j : IsClose(x[j], x[k]) /\ IsRounded(d[j], x[k])
    /\ ExactlyPrintable(x) => d = x

----------------------------------------------------------------------------
(* The decoders run on a hand-written document *)

MaxItems == 3

(* The tokens documents are written with: their text, and what the text    *)
(* is meant to be: a run of count copies of value, a bare number, the      *)
(* comment marker, or a token that is neither a run nor a number.          *)
TokenTable == <<
    [text |-> <<"4", "8", "*", "0">>, kind |-> "run", count |-> 48, value |-> 0],
    [text |-> <<"3", "*", "1", ".", "5", "0", "0", "0", "0", "0">>,
        kind |-> "run", count |-> 3, value |-> F(1, 500000)],
    [text |-> <<"2", "*", "-", "1", ".", "5">>,
        kind |-> "run", count |-> 2, value |-> -F(1, 500000)],
    [text |-> <<"0">>, kind |-> "bare", count |-> 1, value |-> 0],
    [text |-> <<"-", "2", ".", "5", "0", "0", "0", "0", "0">>,
        kind |-> "bare", count |-> 1, value |-> -F(2, 500000)],
    [text |-> <<"*", "*">>, kind |-> "comment", count |-> 0, value |-> 0],
    [text |-> <<"3", "*">>, kind |-> "junk", count |-> 0, value |-> 0],
    [text |-> <<"3", "*", "a", "b", "c">>, kind |-> "junk", count |-> 0, value |-> 0],
    [text |-> <<"3", "*", ".">>, kind |-> "junk", count |-> 0, value |-> 0],
    [text |-> <<"2", "*", "1", ".", "5", "e", "3">>, kind |-> "junk", count |-> 0, value |-> 0],
    [text |-> <<"3", "*", "1", ".", "5", "a", "b", "c">>,
        kind |-> "junk", count |-> 0, value |-> 0],
    [text |-> <<"a", "b", "c">>, kind |-> "junk", count |-> 0, value |-> 0] >>

(* an item of a document: a token of the table, or NL for a line break *)
NL == Len(TokenTable) + 1
Items == 1..NL

(* the items of the first line, and the items after its line break *)
RECURSIVE FirstLine(_)
FirstLine(its) == IF its = <<>> \/ Head(its) = NL THEN <<>>
                  ELSE <<Head(its)>> \o FirstLine(Tail(its))

RestLines(its) == SubSeq(its, Len(FirstLine(its)) + 2, Len(its))

(* the lines of the document, as lists of table indices *)
RECURSIVE ItemLines(_)
ItemLines(its) ==
    IF its = <<>> THEN <<>>
    ELSE <<FirstLine(its)>> \o ItemLines(RestLines(its))

(* the text of the file: on each line the tokens' texts joined by single   *)
(* blanks, then the newline                                                *)
RenderDoc(its) ==
    LET ls == ItemLines(its)
    IN  [k \in 1..Len(ls) |->
            Join([t \in 1..Len(ls[k]) |-> TokenTable[ls[k][t]].text]) \o <<"\n">>]

InitDecode ==
    /\ array = <<>>
    /\ max_line_length = 80
    /\ i = 0
    /\ current_line = <<>>
    /\ compressed_lines = <<>>
    /\ epc = "idle"
    /\ \/ /\ items \in UNION {[1..n -> Items] : n \in 0..MaxItems}
          /\ file_exists = TRUE
       \/ /\ items = <<>>
          /\ file_exists = FALSE
    /\ file = RenderDoc(items)
    /\ dres = NoResult
    /\ rres = NoResult
    /\ ScatterIdle
    /\ CompareIdle
    /\ FilesIdle
    /\ GdeclIdle
    /\ FgridIdle
    /\ CountIdle

NextDecode == Decompress \/ ReadCmg

SpecDecode == InitDecode /\ [][NextDecode]_vars

(* what a token is meant to contribute *)
Expansion(t) ==
    IF TokenTable[t].kind \in {"run", "bare"}
    THEN Repeat(TokenTable[t].value, TokenTable[t].count)
    ELSE <<>>

RECURSIVE ExpandTokens(_)
ExpandTokens(ts) == IF ts = <<>> THEN <<>>
                    ELSE Expansion(Head(ts)) \o ExpandTokens(Tail(ts))

IsCommentLine(ts) == ts # <<>> /\ TokenTable[ts[1]].kind = "comment"

RECURSIVE ExpandLines(_)
ExpandLines(ls) ==
    IF ls = <<>> THEN <<>>
    ELSE (IF IsCommentLine(Head(ls)) THEN <<>> ELSE ExpandTokens(Head(ls)))
         \o ExpandLines(Tail(ls))

(* the values the document is meant to hold *)
Expected == ExpandLines(ItemLines(items))

(* every line is blank, a comment, or made of runs and bare numbers only *)
WellFormed ==
    \A k \in 1..Len(ItemLines(items)) :
        LET ts == ItemLines(items)[k]
        IN  IsCommentLine(ts) \/ \A t \in 1..Len(ts) : TokenTable[ts[t]].kind \in {"run", "bare"}

ExampleDoc == <<1, 2>>

(* C6: for a document whose data lines hold only runs and bare numbers,    *)
(* both decoders give the expansions of the tokens of the lines that are   *)
(* neither blank nor start with the comment marker, in line order and then *)
(* token order: count copies of value for a run, one copy for a bare       *)
(* number (read_cmg_format_file when that sequence is not empty); the line *)
(* "48*0 3*1.500000" gives 48 zeros and then 3 copies of 1.5.              *)
C6_Decoding ==
    (file_exists /\ WellFormed) =>
        /\ dres # NoResult => dres = Returned(Expected)
        /\ (rres # NoResult /\ Expected # <<>>) => rres = Returned(Expected)
        /\ (items = ExampleDoc /\ dres # NoResult) =>
              /\ Len(dres.values) = 51
              /\ \A k \in 1..48 : dres.values[k] = 0
              /\ \A k \in 49..51 : dres.values[k] = F(1, 500000)

(* the line "48*0 3*1.500000" decoded by both decoders *)
C6_Witness ==
    /\ items = ExampleDoc
    /\ dres.status = "returned"
    /\ Len(dres.values) = 51
    /\ rres = dres

(* C7 as stated: a token that is neither a run nor a bare number adds no   *)
(* value and raises nothing, and the other tokens decode as without it.    *)
C7_Original ==
    file_exists =>
        /\ dres # NoResult => dres = Returned(Expected)
        /\ (rres # NoResult /\ Expected # <<>>) => rres = Returned(Expected)

(* C8 as stated: read_cmg_format_file fails exactly when the document      *)
(* holds no value, with the error that says so, and on such a document     *)
(* decompress_cmg_format_to_array returns an empty array.                  *)
C8_Original ==
    file_exists =>
        /\ rres # NoResult =>
              /\ (rres.status = "raised") <=> (Expected = <<>>)
              /\ rres.status = "raised" =>
                    rres.error = "ValueError: No numerical values found"
        /\ (dres # NoResult /\ Expected = <<>>) => dres = Returned(<<>>)

----------------------------------------------------------------------------
(* generate_full_porosity and generate_full_porosity_data *)

MaxCells == 2

MaxIds == 2

NoError == [kind |-> "none", a |-> 0, b |-> 0, total |-> 0]

MinOf(seq) == CHOOSE m \in {seq[k] : k \in 1..Len(seq)} : \A k \in 1..Len(seq) : m <= seq[k]
MaxOf(seq) == CHOOSE m \in {seq[k] : k \in 1..Len(seq)} : \A k \in 1..Len(seq) : m >= seq[k]

(* np.zeros(total_cells) *)
Zeros(n) == [p \in 1..n |-> 0]

(* an assignment loop that writes the pairs from the last to the first *)
RECURSIVE AssignFrom_Reversed(_, _, _, _)
AssignFrom_Reversed(arr, ids, vals, k) ==
    IF k > Len(ids) THEN arr
    ELSE LET m == Len(ids) + 1 - k
         IN  AssignFrom_Reversed([arr EXCEPT ![ids[m]] = vals[m]], ids, vals, k + 1)

(* an assignment loop that stops one pair early *)
RECURSIVE AssignFrom_SkipLast(_, _, _, _)
AssignFrom_SkipLast(arr, ids, vals, k) ==
    IF k >= Len(ids) THEN arr
    ELSE AssignFrom_SkipLast([arr EXCEPT ![ids[k]] = vals[k]], ids, vals, k + 1)

(* full_porosity[active_cell_ids - 1] = porosity_values: the pairs are     *)
(* written in input order, id at 0-based position id - 1                   *)
RECURSIVE AssignFrom(_, _, _, _)
AssignFrom(arr, ids, vals, k) ==
    IF k > Len(ids) THEN arr
    ELSE AssignFrom([arr EXCEPT ![ids[k]] = vals[k]], ids, vals, k + 1)

Validated == {"generate_full_porosity", "generate_full_porosity_data"}

(* the existence checks and np.load of the two input files *)
LoadInputs ==
    /\ fn \in Validated
    /\ spc = "start"
    /\ IF ~actid_exists
       THEN /\ serr' = [kind |-> "FileNotFoundError: actid", a |-> 0, b |-> 0, total |-> 0]
            /\ spc' = "raised"
       ELSE IF ~poro_exists
       THEN /\ serr' = [kind |-> "FileNotFoundError: poro", a |-> 0, b |-> 0, total |-> 0]
            /\ spc' = "raised"
       ELSE /\ serr' = serr
            /\ spc' = "loaded"
    /\ UNCHANGED <<codec_vars, gdecl_vars, fgrid_vars, data_points, compare_vars, files_vars, fn, use_compression, actid_exists, poro_exists,
                   active_cell_ids, porosity_values, total_cells, full_porosity,
                   npy_saved, dat_written>>

(* a length check that only refuses surplus ids *)
LengthsDiffer_IdsLonger(ids, vals) == Len(ids) > Len(vals)

(* len(active_cell_ids) != len(porosity_values) raises the mismatch *)
LengthsDiffer(ids, vals) == Len(ids) # Len(vals)

(* a mismatch message with the two lengths exchanged *)
MismatchError_SwappedLengths(ids, vals) ==
    [kind |-> "ValueError: Mismatch", a |-> Len(vals), b |-> Len(ids), total |-> 0]

(* ValueError("Mismatch: {len(active_cell_ids)} active cells but           *)
(* {len(porosity_values)} porosity values")                                *)
MismatchError(ids, vals) ==
    [kind |-> "ValueError: Mismatch", a |-> Len(ids), b |-> Len(vals), total |-> 0]

CheckLengths ==
    /\ fn \in Validated
    /\ spc = "loaded"
    /\ IF LengthsDiffer(active_cell_ids, porosity_values)
       THEN /\ serr' = MismatchError(active_cell_ids, porosity_values)
            /\ spc' = "raised"
       ELSE /\ serr' = serr
            /\ spc' = "lengths_ok"
    /\ UNCHANGED <<codec_vars, gdecl_vars, fgrid_vars, data_points, compare_vars, files_vars, fn, use_compression, actid_exists, poro_exists,
                   active_cell_ids, porosity_values, total_cells, full_porosity,
                   npy_saved, dat_written>>

(* a range check that refuses the last cell *)
OutOfRange_UpperExclusive(min_id, max_id, total) == min_id < 1 \/ max_id >= total

(* min_id < 1 or max_id > total_cells *)
OutOfRange(min_id, max_id, total) == min_id < 1 \/ max_id > total

(* np.min and np.max of the ids (a ValueError on an empty array), then the *)
(* range check                                                             *)
CheckRange ==
    /\ fn \in Validated
    /\ spc = "lengths_ok"
    /\ IF active_cell_ids = <<>>
       THEN /\ serr' = [kind |-> "ValueError: zero-size array to reduction operation",
                        a |-> 0, b |-> 0, total |-> 0]
            /\ spc' = "raised"
       ELSE LET min_id == MinOf(active_cell_ids)
                max_id == MaxOf(active_cell_ids)
            IN  IF OutOfRange(min_id, max_id, total_cells)
                THEN /\ serr' = [kind |-> "ValueError: Cell IDs out of range",
                                 a |-> min_id, b |-> max_id, total |-> total_cells]
                     /\ spc' = "raised"
                ELSE /\ serr' = serr
                     /\ spc' = "range_ok"
    /\ UNCHANGED <<codec_vars, gdecl_vars, fgrid_vars, data_points, compare_vars, files_vars, fn, use_compression, actid_exists, poro_exists,
                   active_cell_ids, porosity_values, total_cells, full_porosity,
                   npy_saved, dat_written>>

(* the dense array is created and filled *)
Fill ==
    /\ fn \in Validated
    /\ spc = "range_ok"
    /\ full_porosity' = AssignFrom(Zeros(total_cells), active_cell_ids, porosity_values, 1)
    /\ spc' = "filled"
    /\ UNCHANGED <<codec_vars, gdecl_vars, fgrid_vars, data_points, compare_vars, files_vars, fn, use_compression, actid_exists, poro_exists,
                   active_cell_ids, porosity_values, total_cells, serr,
                   npy_saved, dat_written>>

(* np.save(output_file, full_porosity); generate_full_porosity returns *)
Save ==
    /\ fn \in Validated \cup {"generate_full_porosity_data_simple"}
    /\ spc = "filled"
    /\ npy_saved' = TRUE
    /\ spc' = IF fn # "generate_full_porosity" /\ use_compression
              THEN "saved" ELSE "returned"
    /\ UNCHANGED <<codec_vars, gdecl_vars, fgrid_vars, data_points, compare_vars, files_vars, fn, use_compression, actid_exists, poro_exists,
                   active_cell_ids, porosity_values, total_cells, full_porosity, serr,
                   dat_written>>

(* generate_full_porosity_data and generate_full_porosity_data_simple with *)
(* use_compression write the .dat file                                     *)
WriteDat ==
    /\ fn \in {"generate_full_porosity_data", "generate_full_porosity_data_simple"}
    /\ spc = "saved"
    /\ dat_written' = TRUE
    /\ spc' = "returned"
    /\ UNCHANGED <<codec_vars, gdecl_vars, fgrid_vars, data_points, compare_vars, files_vars, fn, use_compression, actid_exists, poro_exists,
                   active_cell_ids, porosity_values, total_cells, full_porosity, serr,
                   npy_saved>>

(* the porosity values of the inputs: 0.0, 0.25 and 0.5 *)
Porosities == {0, F(0, 250000), F(0, 500000)}

SeqsUpTo(S, n) == UNION {[1..m -> S] : m \in 0..n}

(* the calls of the range examples, ids [0] and [11] with total_cells 10, *)
(* and of the cardinality example, ids [1, 2] with values [1.0]           *)
ExampleCalls ==
    {[ids |-> <<0>>, values |-> <<One>>, total |-> 10],
     [ids |-> <<11>>, values |-> <<One>>, total |-> 10],
     [ids |-> <<1, 2>>, values |-> <<One>>, total |-> 10]}

Calls ==
    {[ids |-> a, values |-> v, total |-> n] :
        a \in SeqsUpTo(0..(MaxCells + 1), MaxIds),
        v \in SeqsUpTo(Porosities, MaxIds),
        n \in 1..MaxCells} \cup ExampleCalls

InitScatter ==
    /\ array = <<>>
    /\ max_line_length = 80
    /\ i = 0
    /\ current_line = <<>>
    /\ compressed_lines = <<>>
    /\ epc = "off"
    /\ items = <<>>
    /\ file_exists = FALSE
    /\ file = <<>>
    /\ dres = NoResult
    /\ rres = NoResult
    /\ fn \in Validated
    /\ use_compression \in (IF fn = "generate_full_porosity_data" THEN BOOLEAN ELSE {FALSE})
    /\ \E c \in Calls :
          /\ total_cells = c.total
          /\ \/ /\ actid_exists = TRUE
                /\ poro_exists = TRUE
                /\ active_cell_ids = c.ids
                /\ porosity_values = c.values
             \/ /\ actid_exists = FALSE
                /\ poro_exists = TRUE
                /\ active_cell_ids = <<>>
                /\ porosity_values = c.values
                /\ c.ids = <<>>
             \/ /\ actid_exists = TRUE
                /\ poro_exists = FALSE
                /\ active_cell_ids = c.ids
                /\ porosity_values = <<>>
                /\ c.values = <<>>
    /\ spc = "start"
    /\ full_porosity = <<>>
    /\ serr = NoError
    /\ npy_saved = FALSE
    /\ dat_written = FALSE
    /\ CompareIdle
    /\ FilesIdle
    /\ GdeclIdle
    /\ FgridIdle
    /\ CountIdle

NextScatter == LoadInputs \/ CheckLengths \/ CheckRange \/ Fill \/ Save \/ WriteDat

SpecScatter == InitScatter /\ [][NextScatter]_vars

(* the scatter has succeeded: the dense array exists *)
Scattered == spc \in {"filled", "saved", "returned"}

(* the scatter has ended, with the array or with an exception *)
ScatterEnded == spc \in {"returned", "raised"}

IdsOf(ids) == {ids[k] : k \in 1..Len(ids)}

C10_RangeEnforcement ==
    (/\ ScatterEnded
     /\ actid_exists /\ poro_exists
     /\ Len(active_cell_ids) = Len(porosity_values)
     /\ active_cell_ids # <<>>) =>
        /\ (serr.kind = "ValueError: Cell IDs out of range")
              <=> (\E k \in 1..Len(active_cell_ids) :
                      active_cell_ids[k] < 1 \/ active_cell_ids[k] > total_cells)
        /\ serr.kind = "ValueError: Cell IDs out of range" =>
              /\ spc = "raised"
              /\ serr.a \in IdsOf(active_cell_ids)
              /\ serr.b \in IdsOf(active_cell_ids)
              /\ \A id \in IdsOf(active_cell_ids) : serr.a <= id /\ id <= serr.b
              /\ serr.total = total_cells
        /\ serr.kind # "ValueError: Cell IDs out of range" => spc = "returned"
        /\ (total_cells = 10 /\ active_cell_ids \in {<<0>>, <<11>>}) => spc = "raised"

(* ids [11] with total_cells 10 is refused, reporting 11 to 11 and 10 *)
C10_Witness ==
    /\ spc = "raised"
    /\ active_cell_ids = <<11>>
    /\ total_cells = 10
    /\ serr = [kind |-> "ValueError: Cell IDs out of range", a |-> 11, b |-> 11,
               total |-> 10]

(* C11: with both files present and len(ids) # len(values), the scatter    *)
(* ends with the mismatch error, which carries len(ids) and len(values),   *)
(* whether or not some id is also out of range (the length check comes     *)
(* first); ids [1, 2] with values [1.0] and total_cells 10 fails so.       *)
C11_CardinalityFirst ==
    (/\ ScatterEnded
     /\ actid_exists /\ poro_exists
     /\ Len(active_cell_ids) # Len(porosity_values)) =>
        /\ spc = "raised"
        /\ serr.kind = "ValueError: Mismatch"
        /\ serr.a = Len(active_cell_ids)
        /\ serr.b = Len(porosity_values)

(* ids [0, 3] with one value in a grid of 2 cells: both ids are out of     *)
(* range and the mismatch of 2 against 1 is what is reported               *)
C11_Witness ==
    /\ spc = "raised"
    /\ active_cell_ids = <<0, 3>>
    /\ porosity_values = <<F(0, 250000)>>
    /\ total_cells = 2
    /\ serr = [kind |-> "ValueError: Mismatch", a |-> 2, b |-> 1, total |-> 0]

(* the last input position that holds id *)
LastOccurrence(ids, id) ==
    CHOOSE k \in 1..Len(ids) :
        /\ ids[k] = id
        /\ \A m \in 1..Len(ids) : ids[m] = id => m <= k

HasDuplicate(ids) == \E k, m \in 1..Len(ids) : k # m /\ ids[k] = ids[m]

(* C12: when the scatter succeeds, also with an id at several input        *)
(* positions, position id - 1 holds the value paired with the last         *)
(* occurrence of id in input order and the other positions hold 0.0, which *)
(* is the array the pairs give when applied one by one in input order.     *)
C12_LastWriteWins ==
    /\ Scattered =>
          /\ Len(full_porosity) = total_cells
          /\ \A p \in 1..total_cells :
                full_porosity[p] =
                   IF p \in IdsOf(active_cell_ids)
                   THEN porosity_values[LastOccurrence(active_cell_ids, p)]
                   ELSE 0
    /\ (/\ ScatterEnded
        /\ actid_exists /\ poro_exists
        /\ Len(active_cell_ids) = Len(porosity_values)
        /\ HasDuplicate(active_cell_ids)
        /\ \A id \in IdsOf(active_cell_ids) : 1 <= id /\ id <= total_cells)
           => spc = "returned"

(* id 1 given twice, with 0.25 and then 0.5: cell 1 ends with 0.5 *)
C12_Witness ==
    /\ spc = "returned"
    /\ active_cell_ids = <<1, 1>>
    /\ porosity_values = <<F(0, 250000), F(0, 500000)>>
    /\ total_cells = 2
    /\ full_porosity = <<F(0, 500000), 0>>

(* every validation of the scatter has passed *)
ValidationsPass ==
    /\ actid_exists /\ poro_exists
    /\ Len(active_cell_ids) = Len(porosity_values)
    /\ \A id \in IdsOf(active_cell_ids) : 1 <= id /\ id <= total_cells

(* C13: when the scatter has raised (a missing input file, a length        *)
(* mismatch, an id out of range) there is no dense array and neither the   *)
(* .npy nor the .dat file has been written; an output file is written only *)
(* when every validation has passed.                                       *)
C13_NoOutputOnFailure ==
    /\ spc = "raised" =>
          /\ serr # NoError
          /\ full_porosity = <<>>
          /\ ~npy_saved
          /\ ~dat_written
    /\ (~ValidationsPass /\ ScatterEnded) => spc = "raised"
    /\ (npy_saved \/ dat_written \/ full_porosity # <<>>) =>
          (ValidationsPass /\ serr = NoError)
    /\ dat_written => npy_saved

(* generate_full_porosity_data, asked to compress, stopped by an id above  *)
(* total_cells with nothing written                                        *)
C13_Witness ==
    /\ fn = "generate_full_porosity_data"
    /\ use_compression
    /\ spc = "raised"
    /\ serr.kind = "ValueError: Cell IDs out of range"
    /\ active_cell_ids = <<3>>
    /\ total_cells = 2
    /\ ~npy_saved /\ ~dat_written /\ full_porosity = <<>>

----------------------------------------------------------------------------
(* compare_arrays *)

MaxCmpLen == 2

(* an equality test that looks at the first elements only *)
ArrayEqual_FirstOnly(a, b) == Len(a) = Len(b) /\ a[1] = b[1]

(* np.array_equal(array1, array2) *)
ArrayEqual(a, b) == Len(a) = Len(b) /\ \A k \in 1..Len(a) : a[k] = b[k]

(* np.abs(array1 - array2) *)
Differences(a, b) == [k \in 1..Len(a) |-> NumAbs(NumSub(a[k], b[k]))]

(* a test that also counts a difference equal to the tolerance *)
Exceeds_AtTolerance(d, tol) == ~NumGt(tol, d)

(* differences > tolerance, for one element *)
Exceeds(d, tol) == NumGt(d, tol)

RECURSIVE NumMax(_)
NumMax(seq) ==
    IF Len(seq) = 1 THEN seq[1]
    ELSE LET m == NumMax(Tail(seq))
         IN  IF NumGt(seq[1], m) THEN seq[1] ELSE m

RECURSIVE NumSum(_)
NumSum(seq) == IF seq = <<>> THEN Zero ELSE NumAdd(Head(seq), NumSum(Tail(seq)))

(* np.mean(differences), kept as the sum and the number of elements *)
Mean(seq) == [sum |-> NumSum(seq), n |-> Len(seq)]

(* the literal 0.0 as a mean *)
ZeroMean == [sum |-> Zero, n |-> 1]

(* np.sum(differences > tolerance) *)
CountExceeding(diffs, tol) == Cardinality({k \in 1..Len(diffs) : Exceeds(diffs[k], tol)})

(* an index list that counts positions from 1 *)
RECURSIVE DiffIndices_OneBased(_, _, _)
DiffIndices_OneBased(diffs, tol, k) ==
    IF k > Len(diffs) THEN <<>>
    ELSE (IF Exceeds(diffs[k], tol) THEN <<k>> ELSE <<>>)
            \o DiffIndices_OneBased(diffs, tol, k + 1)

(* np.where(differences > tolerance)[0]: the 0-based positions, ascending *)
RECURSIVE DiffIndices(_, _, _)
DiffIndices(diffs, tol, k) ==
    IF k > Len(diffs) THEN <<>>
    ELSE (IF Exceeds(diffs[k], tol) THEN <<k - 1>> ELSE <<>>)
            \o DiffIndices(diffs, tol, k + 1)

(* an empty-input result that always blames the first array *)
EmptyResult_AlwaysFirst(name1, name2, n1, n2) ==
    [identical |-> FALSE, error |-> <<name1, " is empty">>, size1 |-> n1, size2 |-> n2]

(* the dict returned for an empty array: the first array when it is empty, *)
(* otherwise the second                                                    *)
EmptyResult(name1, name2, n1, n2) ==
    IF n1 = 0
    THEN [identical |-> FALSE, error |-> <<name1, " is empty">>, size1 |-> 0, size2 |-> n2]
    ELSE [identical |-> FALSE, error |-> <<name2, " is empty">>, size1 |-> n1, size2 |-> 0]

(* a size report that gives the first length twice *)
SizeMismatchResult_FirstTwice(n1, n2) ==
    [identical |-> FALSE, error |-> <<"Different array sizes">>, size1 |-> n1, size2 |-> n1]

(* the dict returned for arrays of different lengths *)
SizeMismatchResult(n1, n2) ==
    [identical |-> FALSE, error |-> <<"Different array sizes">>, size1 |-> n1, size2 |-> n2]

compare_arrays(a1, a2, tol, name1, name2) ==
    IF Len(a1) = 0 \/ Len(a2) = 0 THEN EmptyResult(name1, name2, Len(a1), Len(a2))
    ELSE IF Len(a1) # Len(a2) THEN SizeMismatchResult(Len(a1), Len(a2))
    ELSE IF ArrayEqual(a1, a2)
    THEN [identical |-> TRUE, exact_match |-> TRUE, tolerance_match |-> TRUE,
          max_difference |-> Zero, mean_difference |-> ZeroMean,
          different_elements |-> 0]
    ELSE LET differences == Differences(a1, a2)
             max_diff == NumMax(differences)
             mean_diff == Mean(differences)
             different_elements == CountExceeding(differences, tol)
         IN  IF different_elements = 0
             THEN [identical |-> TRUE, exact_match |-> FALSE, tolerance_match |-> TRUE,
                   max_difference |-> max_diff, mean_difference |-> mean_diff,
                   different_elements |-> 0]
             ELSE [identical |-> FALSE, exact_match |-> FALSE, tolerance_match |-> FALSE,
                   max_difference |-> max_diff, mean_difference |-> mean_diff,
                   different_elements |-> different_elements,
                   different_indices |-> DiffIndices(differences, tol, 1)]

(* a caller compares the two arrays *)
CompareArrays ==
    /\ cpc = "start"
    /\ cres' = compare_arrays(array1, array2, tolerance, file1_name, file2_name)
    /\ cpc' = "returned"
    /\ UNCHANGED <<codec_vars, gdecl_vars, fgrid_vars, data_points, scatter_vars, files_vars, array1, array2, tolerance,
                   file1_name, file2_name>>

(* 1.0, 1.5, 2.0 and 2.000002 *)
CmpValues == {Num(10, 0), Num(15, 0), Num(20, 0), Num(20, 20000)}

(* 0, 0.5, 1e-6 and -1e-6 *)
Tolerances == {Zero, Num(5, 0), Num(0, 10000), NumNeg(Num(0, 10000))}

(* the comparisons of the examples: [1.0, 2.0] against [1.0, 2.0000000001] *)
(* with tolerance 1e-6, [1, 2, 3] against itself with the default          *)
(* tolerance 1e-10, and [1, 2] against [1, 2, 3]                           *)
ExampleComparisons ==
    {[a1 |-> <<Num(10, 0), Num(20, 0)>>, a2 |-> <<Num(10, 0), Num(20, 1)>>,
      tol |-> Num(0, 10000)],
     [a1 |-> <<Num(10, 0), Num(20, 0), Num(30, 0)>>,
      a2 |-> <<Num(10, 0), Num(20, 0), Num(30, 0)>>, tol |-> Num(0, 1)],
     [a1 |-> <<Num(10, 0), Num(20, 0)>>,
      a2 |-> <<Num(10, 0), Num(20, 0), Num(30, 0)>>, tol |-> Num(0, 1)]}

Comparisons ==
    {[a1 |-> a, a2 |-> b, tol |-> t] :
        a \in SeqsUpTo(CmpValues, MaxCmpLen),
        b \in SeqsUpTo(CmpValues, MaxCmpLen),
        t \in Tolerances} \cup ExampleComparisons

InitCompare ==
    /\ array = <<>>
    /\ max_line_length = 80
    /\ i = 0
    /\ current_line = <<>>
    /\ compressed_lines = <<>>
    /\ epc = "off"
    /\ items = <<>>
    /\ file_exists = FALSE
    /\ file = <<>>
    /\ dres = NoResult
    /\ rres = NoResult
    /\ ScatterIdle
    /\ FilesIdle
    /\ GdeclIdle
    /\ FgridIdle
    /\ CountIdle
    /\ \E c \in Comparisons :
          /\ array1 = c.a1
          /\ array2 = c.a2
          /\ tolerance = c.tol
    /\ \E names \in {<<"File 1", "File 2">>, <<"a.dat", "b.npy">>} :
          /\ file1_name = names[1]
          /\ file2_name = names[2]
    /\ cpc = "start"
    /\ cres = <<>>

NextCompare == CompareArrays

SpecCompare == InitCompare /\ [][NextCompare]_vars

(* compare_arrays has returned for two non-empty arrays of one length *)
Compared ==
    /\ cpc = "returned"
    /\ Len(array1) > 0
    /\ Len(array1) = Len(array2)

(* d_i, for the 0-based index i *)
D(idx) == NumAbs(NumSub(array1[idx + 1], array2[idx + 1]))

Indices == 0..(Len(array1) - 1)

(* the indices i with d_i > tolerance *)
Offending == {idx \in Indices : NumGt(D(idx), tolerance)}

NonNegative(x) == x.hi >= 0

(* the first example: [1.0, 2.0] against [1.0, 2.0000000001], 1e-6 *)
IsToleranceExample ==
    /\ array1 = <<Num(10, 0), Num(20, 0)>>
    /\ array2 = <<Num(10, 0), Num(20, 1)>>
    /\ tolerance = Num(0, 10000)

(* C14 as stated: for non-empty arrays of one length and every tolerance,  *)
(* negative ones included, tolerance_match is true exactly when every      *)
(* d_i <= tolerance.                                                       *)
C14_Original ==
    Compared => (cres.tolerance_match <=> (Offending = {}))

(* C14: for non-empty arrays of one length, tolerance_match is true        *)
(* exactly when the arrays are exactly equal or every d_i <= tolerance;    *)
(* with tolerance >= 0 that is exactly when every d_i <= tolerance, and    *)
(* with a negative tolerance exactly when the arrays are exactly equal.    *)
(* [1.0, 2.0] against [1.0, 2.0000000001] with tolerance 1e-6 gives        *)
(* tolerance_match true and exact_match false.                             *)
C14_ToleranceFlag ==
    Compared =>
        /\ cres.tolerance_match <=> (array1 = array2 \/ Offending = {})
        /\ NonNegative(tolerance) => (cres.tolerance_match <=> (Offending = {}))
        /\ ~NonNegative(tolerance) => (cres.tolerance_match <=> (array1 = array2))
        /\ IsToleranceExample => (cres.tolerance_match /\ ~cres.exact_match)

(* the first example, compared *)
C14_Witness ==
    /\ cpc = "returned"
    /\ IsToleranceExample
    /\ cres.tolerance_match
    /\ ~cres.exact_match
    /\ cres.max_difference = Num(0, 1)

(* C15: for non-empty arrays of one length, exact_match is true exactly    *)
(* when every d_i is 0, and then max_difference is 0.0, mean_difference is *)
(* 0.0 and different_elements is 0; [1, 2, 3] against [1, 2, 3] with       *)
(* tolerance 1e-10 is such a case.                                         *)
C15_Exactness ==
    Compared =>
        /\ cres.exact_match <=> (\A idx \in Indices : D(idx) = Zero)
        /\ cres.exact_match =>
              /\ cres.max_difference = Zero
              /\ cres.mean_difference.sum = Zero
              /\ cres.different_elements = 0

(* [1, 2, 3] against [1, 2, 3] with tolerance 1e-10, compared *)
C15_Witness ==
    /\ cpc = "returned"
    /\ array1 = <<Num(10, 0), Num(20, 0), Num(30, 0)>>
    /\ array2 = array1
    /\ tolerance = Num(0, 1)
    /\ cres.exact_match
    /\ cres.max_difference = Zero
    /\ cres.different_elements = 0

(* seq is the strictly ascending list of the elements of S *)
IsAscendingListOf(seq, S) ==
    /\ {seq[k] : k \in 1..Len(seq)} = S
    /\ \A k \in 1..(Len(seq) - 1) : seq[k] < seq[k + 1]

(* C16 as stated: for every tolerance, different_elements is the number of *)
(* indices with d_i > tolerance, and different_indices is carried exactly  *)
(* when that number is positive, as the ascending list of those indices.   *)
C16_Original ==
    Compared =>
        /\ cres.different_elements = Cardinality(Offending)
        /\ ("different_indices" \in DOMAIN cres) <=> (Offending # {})
        /\ ("different_indices" \in DOMAIN cres) =>
              /\ IsAscendingListOf(cres.different_indices, Offending)
              /\ Len(cres.different_indices) = cres.different_elements

(* C16: for non-empty arrays of one length that are not exactly equal, or  *)
(* with tolerance >= 0, different_elements is the number of indices with   *)
(* d_i > tolerance and different_indices is carried exactly when that      *)
(* number is positive, as the strictly ascending list of exactly those     *)
(* indices; for exactly equal arrays different_elements is 0 and no        *)
(* different_indices is carried, whatever the tolerance.                   *)
C16_DifferenceReport ==
    Compared =>
        /\ (array1 # array2 \/ NonNegative(tolerance)) =>
              /\ cres.different_elements = Cardinality(Offending)
              /\ ("different_indices" \in DOMAIN cres) <=> (Offending # {})
        /\ ("different_indices" \in DOMAIN cres) =>
              /\ IsAscendingListOf(cres.different_indices, Offending)
              /\ Len(cres.different_indices) = cres.different_elements
        /\ array1 = array2 =>
              /\ cres.different_elements = 0
              /\ "different_indices" \notin DOMAIN cres

(* [1.0, 2.0] against [1.5, 2.000002] with tolerance 1e-6: both indices *)
C16_Witness ==
    /\ cpc = "returned"
    /\ array1 = <<Num(10, 0), Num(20, 0)>>
    /\ array2 = <<Num(15, 0), Num(20, 20000)>>
    /\ tolerance = Num(0, 10000)
    /\ cres.different_elements = 2
    /\ cres.different_indices = <<0, 1>>

(* C17: for non-empty arrays of different lengths compare_arrays returns a *)
(* dict with exactly identical = false, an error, size1 and size2, the two *)
(* lengths, and no difference statistics; [1, 2] against [1, 2, 3] gives   *)
(* sizes 2 and 3.                                                          *)
C17_LengthMismatch ==
    (/\ cpc = "returned"
     /\ Len(array1) > 0 /\ Len(array2) > 0
     /\ Len(array1) # Len(array2)) =>
        /\ DOMAIN cres = {"identical", "error", "size1", "size2"}
        /\ cres.identical = FALSE
        /\ cres.error = <<"Different array sizes">>
        /\ cres.size1 = Len(array1)
        /\ cres.size2 = Len(array2)

(* [1, 2] against [1, 2, 3], compared *)
C17_Witness ==
    /\ cpc = "returned"
    /\ array1 = <<Num(10, 0), Num(20, 0)>>
    /\ array2 = <<Num(10, 0), Num(20, 0), Num(30, 0)>>
    /\ cres.size1 = 2
    /\ cres.size2 = 3
    /\ cres.identical = FALSE

(* C18: when either array is empty compare_arrays returns a dict with      *)
(* exactly identical = false, an error that names the first array when it  *)
(* is empty and otherwise the second, and size1 and size2, the two         *)
(* lengths; an empty array against a non-empty one is reported so, not as  *)
(* a length mismatch.                                                      *)
C18_EmptyInput ==
    (/\ cpc = "returned"
     /\ (Len(array1) = 0 \/ Len(array2) = 0)) =>
        /\ DOMAIN cres = {"identical", "error", "size1", "size2"}
        /\ cres.identical = FALSE
        /\ cres.error = <<(IF Len(array1) = 0 THEN file1_name ELSE file2_name),
                          " is empty">>
        /\ cres.size1 = Len(array1)
        /\ cres.size2 = Len(array2)

(* [1.0, 1.5] against an empty second array named b.npy *)
C18_Witness ==
    /\ cpc = "returned"
    /\ array1 = <<Num(10, 0), Num(15, 0)>>
    /\ array2 = <<>>
    /\ file2_name = "b.npy"
    /\ cres.error = <<"b.npy", " is empty">>
    /\ cres.size1 = 2
    /\ cres.size2 = 0

----------------------------------------------------------------------------
(* read_file_by_extension and compare_files *)

MaxFileLines == 2

(* the position of the last "." of name, from 1, or 0: str.rfind *)
RECURSIVE RFindDot(_)
RFindDot(name) ==
    IF name = <<>> THEN 0
    ELSE IF name[Len(name)] = "." THEN Len(name)
    ELSE RFindDot(SubSeq(name, 1, Len(name) - 1))

(* Path(file_path).suffix for a path that is a bare file name: the text    *)
(* from the last "." on, unless that "." is the first or the last          *)
(* character of the name                                                   *)
Suffix(name) ==
    LET dot == RFindDot(name)
    IN  IF 1 < dot /\ dot < Len(name) THEN SubSeq(name, dot, Len(name)) ELSE <<>>

UpperLetters == <<"A", "B", "C", "D", "E", "F", "G", "H", "I", "J", "K", "L", "M",
                  "N", "O", "P", "Q", "R", "S", "T", "U", "V", "W", "X", "Y", "Z">>

LowerLetters == <<"a", "b", "c", "d", "e", "f", "g", "h", "i", "j", "k", "l", "m",
                  "n", "o", "p", "q", "r", "s", "t", "u", "v", "w", "x", "y", "z">>

LowerChar(c) ==
    IF \E k \in 1..Len(UpperLetters) : UpperLetters[k] = c
    THEN LowerLetters[CHOOSE k \in 1..Len(UpperLetters) : UpperLetters[k] = c]
    ELSE c

(* str.lower() *)
Lower(s) == [k \in 1..Len(s) |-> LowerChar(s[k])]

(* str.upper() of one character *)
UpperChar(c) ==
    IF \E k \in 1..Len(LowerLetters) : LowerLetters[k] = c
    THEN UpperLetters[CHOOSE k \in 1..Len(LowerLetters) : LowerLetters[k] = c]
    ELSE c

(* an extension that keeps the case of the file name *)
Extension_CaseSensitive(path) == Suffix(path)

(* extension = file_path.suffix.lower() *)
Extension(path) == Lower(Suffix(path))

(* the if / elif chain of read_file_by_extension: the reader it calls *)
ReaderFor(extension) ==
    IF extension = <<".", "n", "p", "y">> THEN "read_numpy_file"
    ELSE IF extension = <<".", "d", "a", "t">> THEN "read_cmg_format_file"
    ELSE IF extension = <<".", "g", "d", "e", "c", "l">>
            \/ extension = <<".", "g", "r", "d", "e", "c", "l">>
         THEN "read_gdecl_format_file"
    ELSE IF extension = <<".", "t", "x", "t">> THEN "read_text_file"
    ELSE "read_text_file"

(* np.load and the size test of read_numpy_file; np.load refuses a file    *)
(* that is not an array file                                               *)
read_numpy_file(f) ==
    IF ~f.exists THEN Raised("FileNotFoundError")
    ELSE IF ~f.binary
    THEN (IF f.lines = <<>> THEN Raised("EOFError: No data left in file")
          ELSE Raised("ValueError: Cannot load file containing pickled data"))
    ELSE IF f.data = <<>> THEN Raised("ValueError: Empty array loaded")
    ELSE Returned(f.data)

(* token.rstrip('/') *)
RECURSIVE RStripSlash(_)
RStripSlash(token) ==
    IF token # <<>> /\ token[Len(token)] = "/"
    THEN RStripSlash(SubSeq(token, 1, Len(token) - 1)) ELSE token

(* "for token in tokens" of read_gdecl_format_file *)
RECURSIVE GdeclTokens(_)
GdeclTokens(tokens) ==
    IF tokens = <<>> THEN [raised |-> FALSE, values |-> <<>>]
    ELSE LET h == DecodeToken(RStripSlash(Head(tokens)))
         IN  IF h.raised THEN h
             ELSE LET t == GdeclTokens(Tail(tokens))
                  IN  [raised |-> t.raised, values |-> h.values \o t.values]

(* "for line in f" of read_gdecl_format_file: blank lines are skipped, a   *)
(* line that starts with "/" opens the data section and is skipped, and    *)
(* the other lines are parsed once the data section is open                *)
RECURSIVE GdeclLines(_, _)
GdeclLines(lines, started) ==
    IF lines = <<>> THEN [raised |-> FALSE, values |-> <<>>]
    ELSE LET line == Strip(Head(lines))
         IN  IF line = <<>> THEN GdeclLines(Tail(lines), started)
             ELSE IF UpperChar(line[1]) = "/" THEN GdeclLines(Tail(lines), TRUE)
             ELSE IF ~started THEN GdeclLines(Tail(lines), FALSE)
             ELSE LET h == GdeclTokens(Split(line))
                  IN  IF h.raised THEN h
                      ELSE LET t == GdeclLines(Tail(lines), TRUE)
                           IN  [raised |-> t.raised, values |-> h.values \o t.values]

read_gdecl_format_file(f) ==
    IF ~f.exists THEN Raised("FileNotFoundError")
    ELSE IF f.binary THEN Raised("UnicodeDecodeError")
    ELSE LET r == GdeclLines(f.lines, FALSE)
         IN  IF r.raised THEN Raised("ValueError: could not convert string to float")
             ELSE IF r.values = <<>> THEN Raised("ValueError: No numerical values found")
             ELSE Returned(r.values)

(* "for line in f" of read_text_file: one number per non-blank line, the   *)
(* other lines are skipped with a warning                                  *)
RECURSIVE TextLines(_)
TextLines(lines) ==
    IF lines = <<>> THEN <<>>
    ELSE LET line == Strip(Head(lines))
             f == PyFloat(line)
         IN  (IF line # <<>> /\ f.ok THEN <<f.value>> ELSE <<>>) \o TextLines(Tail(lines))

read_text_file(f) ==
    IF ~f.exists THEN Raised("FileNotFoundError")
    ELSE IF f.binary THEN Raised("UnicodeDecodeError")
    ELSE LET values == TextLines(f.lines)
         IN  IF values = <<>> THEN Raised("ValueError: No numerical values found")
             ELSE Returned(values)

(* the call of the reader *)
CallReader(reader, f) ==
    CASE reader = "read_numpy_file" -> read_numpy_file(f)
      [] reader = "read_cmg_format_file" ->
            (IF f.exists /\ f.binary THEN Raised("UnicodeDecodeError")
             ELSE read_cmg_format_file(f.exists, f.lines))
      [] reader = "read_gdecl_format_file" -> read_gdecl_format_file(f)
      [] reader = "read_text_file" -> read_text_file(f)

read_file_by_extension(path, f) == CallReader(ReaderFor(Extension(path)), f)

(* a call of read_file_by_extension: by a caller of its own for the first  *)
(* file, or by compare_files for the first and then for the second file    *)
ReadFileByExtension ==
    /\ fpc \in {"start", "exist_ok", "first_read"}
    /\ LET path == IF fpc = "first_read" THEN file2_path ELSE file1_path
           f == IF fpc = "first_read" THEN file2 ELSE file1
       IN  /\ called' = Append(called, ReaderFor(Extension(path)))
           /\ rfres' = read_file_by_extension(path, f)
    /\ fpc' = CASE fpc = "start" -> "read"
                [] fpc = "exist_ok" -> "first_called"
                [] fpc = "first_read" -> "second_called"
    /\ UNCHANGED <<codec_vars, gdecl_vars, fgrid_vars, data_points, scatter_vars, compare_vars, file1_path, file2_path,
                   file1, file2, fres>>

(* a reader failure handed to the caller as a result *)
ReaderFailure_Returned(r) ==
    [status |-> "returned", error |-> "",
     result |-> [identical |-> FALSE, error |-> <<r.error>>]]

(* "except Exception as e: ... raise": the reader's exception leaves       *)
(* compare_files                                                           *)
ReaderFailure(r) == [status |-> "raised", error |-> r.error, result |-> <<>>]

(* the existence checks of compare_files *)
CheckFilesExist ==
    /\ fpc = "start"
    /\ IF ~file1.exists \/ ~file2.exists
       THEN /\ fres' = [status |-> "raised", error |-> "FileNotFoundError",
                        result |-> <<>>]
            /\ fpc' = "compared"
       ELSE /\ fres' = fres
            /\ fpc' = "exist_ok"
    /\ UNCHANGED <<codec_vars, gdecl_vars, fgrid_vars, data_points, scatter_vars, compare_vars, file1_path, file2_path,
                   file1, file2, called, rfres>>

(* array1 = read_file_by_extension(file1_path), inside the try *)
AssignFirst ==
    /\ fpc = "first_called"
    /\ IF rfres.status = "raised"
       THEN /\ fres' = ReaderFailure(rfres)
            /\ fpc' = "compared"
            /\ array1' = array1
       ELSE /\ fres' = fres
            /\ fpc' = "first_read"
            /\ array1' = NumsOfUnits(rfres.values)
    /\ UNCHANGED <<codec_vars, gdecl_vars, fgrid_vars, data_points, scatter_vars, array2, tolerance, file1_name, file2_name,
                   cpc, cres, file1_path, file2_path, file1, file2, called, rfres>>

(* array2 = read_file_by_extension(file2_path), inside the try *)
AssignSecond ==
    /\ fpc = "second_called"
    /\ IF rfres.status = "raised"
       THEN /\ fres' = ReaderFailure(rfres)
            /\ fpc' = "compared"
            /\ array2' = array2
       ELSE /\ fres' = fres
            /\ fpc' = "second_read"
            /\ array2' = NumsOfUnits(rfres.values)
    /\ UNCHANGED <<codec_vars, gdecl_vars, fgrid_vars, data_points, scatter_vars, array1, tolerance, file1_name, file2_name,
                   cpc, cres, file1_path, file2_path, file1, file2, called, rfres>>

(* result = compare_arrays(array1, array2, tolerance=tolerance,            *)
(* file1_name=file1_path.name, file2_name=file2_path.name), the summary    *)
(* and "return result"                                                     *)
CompareRead ==
    /\ fpc = "second_read"
    /\ fres' = [status |-> "returned", error |-> "",
                result |-> compare_arrays(array1, array2, tolerance,
                                          file1_path, file2_path)]
    /\ fpc' = "compared"
    /\ UNCHANGED <<codec_vars, gdecl_vars, fgrid_vars, data_points, scatter_vars, compare_vars, file1_path, file2_path,
                   file1, file2, called, rfres>>

(* the file names of the model, each with the lower-cased extension it has *)
PathTable == <<
    [path |-> <<"a", ".", "n", "p", "y">>, ext |-> ".npy"],
    [path |-> <<"a", ".", "N", "P", "Y">>, ext |-> ".npy"],
    [path |-> <<"a", ".", "N", "p", "y">>, ext |-> ".npy"],
    [path |-> <<"a", ".", "d", "a", "t">>, ext |-> ".dat"],
    [path |-> <<"a", ".", "D", "A", "T">>, ext |-> ".dat"],
    [path |-> <<"a", ".", "b", ".", "d", "a", "t">>, ext |-> ".dat"],
    [path |-> <<"a", ".", "g", "d", "e", "c", "l">>, ext |-> ".gdecl"],
    [path |-> <<"a", ".", "g", "r", "d", "e", "c", "l">>, ext |-> ".grdecl"],
    [path |-> <<"a", ".", "G", "R", "D", "E", "C", "L">>, ext |-> ".grdecl"],
    [path |-> <<"a", ".", "t", "x", "t">>, ext |-> ".txt"],
    [path |-> <<"a", ".", "T", "x", "t">>, ext |-> ".txt"],
    [path |-> <<"a", ".", "c", "s", "v">>, ext |-> ".csv"],
    [path |-> <<"a", ".", "n", "p", "z">>, ext |-> ".npz"],
    [path |-> <<"a">>, ext |-> ""],
    [path |-> <<".", "n", "p", "y">>, ext |-> ""] >>

(* the text lines of the model's files: "1.0", "2.5", "abc", "/",          *)
(* "2*1.5 /" and "** c"                                                    *)
LineTable == <<
    <<"1", ".", "0", "\n">>,
    <<"2", ".", "5", "\n">>,
    <<"a", "b", "c", "\n">>,
    <<"/", "\n">>,
    <<"2", "*", "1", ".", "5", " ", "/", "\n">>,
    <<"*", "*", " ", "c", "\n">> >>

TextFile(ls) == [exists |-> TRUE, binary |-> FALSE, data |-> <<>>, lines |-> ls]

ArrayFile(values) == [exists |-> TRUE, binary |-> TRUE, data |-> values, lines |-> <<>>]

(* the files a path of the model can name *)
Files ==
    {TextFile([k \in 1..Len(ix) |-> LineTable[ix[k]]]) :
        ix \in SeqsUpTo(1..Len(LineTable), MaxFileLines)}
    \cup {ArrayFile(<<>>), ArrayFile(<<One>>), ArrayFile(<<One, F(2, 500000)>>)}
    \cup {NoFile}

(* the second files of the model: b.txt with one value, b.txt with two,    *)
(* b.npy with one value, b.dat with a comment only, and a missing b.txt    *)
SecondFiles ==
    LET b_txt == <<"b", ".", "t", "x", "t">>
    IN  {[path |-> b_txt, file |-> TextFile(<<LineTable[1]>>)],
         [path |-> b_txt, file |-> TextFile(<<LineTable[1], LineTable[2]>>)],
         [path |-> <<"b", ".", "n", "p", "y">>, file |-> ArrayFile(<<One>>)],
         [path |-> <<"b", ".", "d", "a", "t">>, file |-> TextFile(<<LineTable[6]>>)],
         [path |-> b_txt, file |-> NoFile]}

(* tolerance=1e-10, the default of compare_files *)
DefaultTolerance == Num(0, 1)

InitFiles ==
    /\ array = <<>>
    /\ max_line_length = 80
    /\ i = 0
    /\ current_line = <<>>
    /\ compressed_lines = <<>>
    /\ epc = "off"
    /\ items = <<>>
    /\ file_exists = FALSE
    /\ file = <<>>
    /\ dres = NoResult
    /\ rres = NoResult
    /\ ScatterIdle
    /\ GdeclIdle
    /\ FgridIdle
    /\ CountIdle
    /\ array1 = <<>>
    /\ array2 = <<>>
    /\ tolerance = DefaultTolerance
    /\ file1_name = "File 1"
    /\ file2_name = "File 2"
    /\ cpc = "idle"
    /\ cres = <<>>
    /\ \E p \in 1..Len(PathTable) : file1_path = PathTable[p].path
    /\ file1 \in Files
    /\ \E s \in SecondFiles :
          /\ file2_path = s.path
          /\ file2 = s.file
    /\ fpc = "start"
    /\ called = <<>>
    /\ rfres = NoResult
    /\ fres = [status |-> "none", error |-> "", result |-> <<>>]

NextFiles ==
    ReadFileByExtension \/ CheckFilesExist \/ AssignFirst \/ AssignSecond \/ CompareRead

SpecFiles == InitFiles /\ [][NextFiles]_vars

(* the lower-cased extension PathTable gives for path *)
ExtOf(path) ==
    PathTable[CHOOSE p \in 1..Len(PathTable) : PathTable[p].path = path].ext

(* the reader the dispatch table names for a lower-cased extension *)
TableReader(ext) ==
    CASE ext = ".npy" -> "read_numpy_file"
      [] ext = ".dat" -> "read_cmg_format_file"
      [] ext \in {".gdecl", ".grdecl"} -> "read_gdecl_format_file"
      [] OTHER -> "read_text_file"

(* the outcomes of the two readers compare_files calls *)
Read1 == read_file_by_extension(file1_path, file1)

Read2 == read_file_by_extension(file2_path, file2)

(* the reader found no value in the file *)
NoValues(r) ==
    /\ r.status = "raised"
    /\ r.error \in {"ValueError: No numerical values found",
                    "ValueError: Empty array loaded"}

(* the reader returned the values of the file or found none *)
Readable(r) == r.status = "returned" \/ NoValues(r)

FilesCompared == fpc = "compared" /\ file1.exists /\ file2.exists

(* C19 as stated: for two existing files compare_files returns a result    *)
(* with identical = false and an error or difference fields, and does not  *)
(* raise, when a file holds no numeric value or the files hold different   *)
(* numbers of values.                                                      *)
C19_Original ==
    (/\ FilesCompared
     /\ Readable(Read1) /\ Readable(Read2)
     /\ \/ NoValues(Read1)
        \/ NoValues(Read2)
        \/ Len(Read1.values) # Len(Read2.values)) =>
        /\ fres.status = "returned"
        /\ fres.result.identical = FALSE
        /\ \/ "error" \in DOMAIN fres.result
           \/ "different_elements" \in DOMAIN fres.result

(* C19: for two existing files, compare_files returns the dict of          *)
(* compare_arrays when both readers return their arrays, so that files     *)
(* with different numbers of values give identical = false, the error      *)
(* 'Different array sizes' and the two sizes; when a reader raises, as     *)
(* every reader does for a file without numeric values, compare_files      *)
(* raises that exception again and returns nothing, and the second file    *)
(* is not read when the first reader raised.                               *)
C19_FileLevelFailures ==
    FilesCompared =>
        /\ (Read1.status = "returned" /\ Read2.status = "returned") =>
              /\ fres.status = "returned"
              /\ Len(Read1.values) # Len(Read2.values) =>
                    /\ fres.result.identical = FALSE
                    /\ fres.result.error = <<"Different array sizes">>
                    /\ fres.result.size1 = Len(Read1.values)
                    /\ fres.result.size2 = Len(Read2.values)
        /\ Read1.status = "raised" =>
              /\ fres = [status |-> "raised", error |-> Read1.error, result |-> <<>>]
              /\ Len(called) = 1
        /\ (Read1.status = "returned" /\ Read2.status = "raised") =>
              fres = [status |-> "raised", error |-> Read2.error, result |-> <<>>]
        /\ (NoValues(Read1) \/ NoValues(Read2)) => fres.status = "raised"

(* a.txt with the line "abc" only, against b.txt with one value *)
C19_Witness ==
    /\ fpc = "compared"
    /\ file1_path = <<"a", ".", "t", "x", "t">>
    /\ file1 = TextFile(<<LineTable[3]>>)
    /\ file2 = TextFile(<<LineTable[1]>>)
    /\ fres.status = "raised"
    /\ fres.error = "ValueError: No numerical values found"

(* C20: read_file_by_extension calls exactly one reader, chosen by the     *)
(* lower-cased extension of the file name: read_numpy_file for .npy,       *)
(* read_cmg_format_file for .dat, read_gdecl_format_file for .gdecl and    *)
(* .grdecl, read_text_file for .txt and for every other extension or       *)
(* none; upper and mixed case dispatch like lower case, and the outcome is *)
(* that reader's.                                                          *)
C20_Dispatch ==
    fpc = "read" =>
        /\ called = <<TableReader(ExtOf(file1_path))>>
        /\ rfres = CallReader(TableReader(ExtOf(file1_path)), file1)

(* a.NPY, an array file, read by read_numpy_file *)
C20_Witness ==
    /\ fpc = "read"
    /\ file1_path = <<"a", ".", "N", "P", "Y">>
    /\ file1 = ArrayFile(<<One>>)
    /\ called = <<"read_numpy_file">>
    /\ rfres = Returned(<<One>>)

----------------------------------------------------------------------------
(* read_gdecl_format_file, line by line *)

MaxGdeclLines == 4

(* a pass of the loop that parses the tokens of the line that starts with  *)
(* "/" after it has set the flag                                           *)
GdeclLine_DelimiterParsed(line, in_section, vals) ==
    LET l == Strip(line)
    IN  IF l = <<>> \/ (~in_section /\ l[1] # "/")
        THEN [in_data_section |-> in_section, values |-> vals, raised |-> FALSE]
        ELSE LET h == GdeclTokens(Split(l))
             IN  [in_data_section |-> TRUE, values |-> vals \o h.values,
                  raised |-> h.raised]

(* one pass of "for line_num, line in enumerate(f, 1)": the flag and the   *)
(* list values after the line, or the ValueError of float(match.group(2))  *)
GdeclLine(line, in_section, vals) ==
    LET l == Strip(line)
    IN  IF l = <<>>
        THEN [in_data_section |-> in_section, values |-> vals, raised |-> FALSE]
        ELSE IF UpperChar(l[1]) = "/"
        THEN [in_data_section |-> TRUE, values |-> vals, raised |-> FALSE]
        ELSE IF ~in_section
        THEN [in_data_section |-> in_section, values |-> vals, raised |-> FALSE]
        ELSE LET h == GdeclTokens(Split(l))
             IN  [in_data_section |-> TRUE, values |-> vals \o h.values,
                  raised |-> h.raised]

(* file_path.exists(), values = [], in_data_section = False, open *)
OpenGdecl ==
    /\ gpc = "start"
    /\ IF ~gdecl_file.exists
       THEN /\ gres' = Raised("FileNotFoundError")
            /\ gpc' = "done"
       ELSE /\ gres' = gres
            /\ gpc' = "loop"
    /\ gdecl_values' = <<>>
    /\ in_data_section' = FALSE
    /\ UNCHANGED <<codec_vars, scatter_vars, compare_vars, files_vars, fgrid_vars,
                   data_points, gdecl_file, line_num>>

(* the next line of the file *)
ReadGdeclLine ==
    /\ gpc = "loop"
    /\ line_num < Len(gdecl_file.lines)
    /\ line_num' = line_num + 1
    /\ LET r == GdeclLine(gdecl_file.lines[line_num + 1], in_data_section, gdecl_values)
       IN  IF r.raised
           THEN /\ gres' = Raised("ValueError: could not convert string to float")
                /\ gpc' = "done"
                /\ UNCHANGED <<in_data_section, gdecl_values>>
           ELSE /\ in_data_section' = r.in_data_section
                /\ gdecl_values' = r.values
                /\ UNCHANGED <<gres, gpc>>
    /\ UNCHANGED <<codec_vars, scatter_vars, compare_vars, files_vars, fgrid_vars,
                   data_points, gdecl_file>>

(* the end of the file: "if not values: raise ValueError", or the array *)
ReturnGdecl ==
    /\ gpc = "loop"
    /\ line_num = Len(gdecl_file.lines)
    /\ gres' = IF gdecl_values = <<>>
               THEN Raised("ValueError: No numerical values found")
               ELSE Returned(gdecl_values)
    /\ gpc' = "done"
    /\ UNCHANGED <<codec_vars, scatter_vars, compare_vars, files_vars, fgrid_vars,
                   data_points, gdecl_file, line_num, in_data_section, gdecl_values>>

(* the lines of the GRDECL files of the model: "PORO", "1.0", "/ 3.0",     *)
(* "/", "2*1.5 /", "3* 1.0" and a line of blanks                           *)
GdeclTable == <<
    <<"P", "O", "R", "O", "\n">>,
    <<"1", ".", "0", "\n">>,
    <<"/", " ", "3", ".", "0", "\n">>,
    <<" ", "/", "\n">>,
    <<"2", "*", "1", ".", "5", " ", "/", "\n">>,
    <<"3", "*", " ", "1", ".", "0", "\n">>,
    <<" ", "\n">> >>

GdeclFiles ==
    {TextFile([k \in 1..Len(ix) |-> GdeclTable[ix[k]]]) :
        ix \in SeqsUpTo(1..Len(GdeclTable), MaxGdeclLines)}
    \cup {NoFile}

InitGdecl ==
    /\ array = <<>>
    /\ max_line_length = 80
    /\ i = 0
    /\ current_line = <<>>
    /\ compressed_lines = <<>>
    /\ epc = "off"
    /\ items = <<>>
    /\ file_exists = FALSE
    /\ file = <<>>
    /\ dres = NoResult
    /\ rres = NoResult
    /\ ScatterIdle
    /\ CompareIdle
    /\ FilesIdle
    /\ FgridIdle
    /\ CountIdle
    /\ gdecl_file \in GdeclFiles
    /\ line_num = 0
    /\ in_data_section = FALSE
    /\ gdecl_values = <<>>
    /\ gpc = "start"
    /\ gres = NoResult

NextGdecl == OpenGdecl \/ ReadGdeclLine \/ ReturnGdecl

SpecGdecl == InitGdecl /\ [][NextGdecl]_vars

(* the line begins with "/" once the blanks around it are removed *)
BeginsWithSlash(line) == Strip(line) # <<>> /\ Strip(line)[1] = "/"

(* the number of the first line that begins with "/", 0 when there is none *)
FirstDelimiter(lines) ==
    IF \E k \in 1..Len(lines) : BeginsWithSlash(lines[k])
    THEN CHOOSE k \in 1..Len(lines) :
            /\ BeginsWithSlash(lines[k])
            /\ \A j \in 1..(k - 1) : ~BeginsWithSlash(lines[j])
    ELSE 0

(* the values of the tokens of lines k.. that do not begin with "/" *)
RECURSIVE ValuesFrom(_, _)
ValuesFrom(lines, k) ==
    IF k > Len(lines) THEN <<>>
    ELSE (IF BeginsWithSlash(lines[k]) THEN <<>>
          ELSE GdeclTokens(Split(Strip(lines[k]))).values) \o ValuesFrom(lines, k + 1)

(* the values found after the first line that begins with "/" *)
ValuesAfterDelimiter(lines) ==
    IF FirstDelimiter(lines) = 0 THEN <<>>
    ELSE ValuesFrom(lines, FirstDelimiter(lines) + 1)

(* the lines read_gdecl_format_file has read *)
LinesRead == SubSeq(gdecl_file.lines, 1, line_num)

GdeclFailed == gpc = "done" /\ gres.status = "raised" /\ gres.error # "ValueError: No numerical values found"

(* the values collected are those of the lines read after the first line   *)
(* that begins with "/", and the flag tells whether that line was read     *)
C21_ValuesOfDataSection ==
    (gpc \in {"loop", "done"} /\ ~GdeclFailed) =>
        /\ gdecl_values = ValuesAfterDelimiter(LinesRead)
        /\ in_data_section = (FirstDelimiter(LinesRead) # 0)
        /\ gpc = "done" =>
              /\ line_num = Len(gdecl_file.lines)
              /\ gres.status = "returned" => gres.values = gdecl_values

(* C21: read_gdecl_format_file returns only the values of the lines after  *)
(* the first line that begins with "/": no token of an earlier line or of  *)
(* that line gives a value, and once in_data_section is set it stays set   *)
(* for the rest of the file, the later lines that begin with "/" being     *)
(* skipped.                                                                *)
C21_DataSection ==
    /\ []C21_ValuesOfDataSection
    /\ [][in_data_section => in_data_section']_vars

(* "1.0", "/ 3.0", " /", "2*1.5 /" gives 1.5 twice *)
C21_Witness ==
    /\ gpc = "done"
    /\ gdecl_file.lines = <<GdeclTable[2], GdeclTable[3], GdeclTable[4], GdeclTable[5]>>
    /\ in_data_section
    /\ gres = Returned(<<F(1, 500000), F(1, 500000)>>)

----------------------------------------------------------------------------
(* extract_coordinates_from_fgrid *)

MaxFgridLines == 4

(* s.startswith(t) *)
StartsWith(s, t) == Len(s) >= Len(t) /\ SubSeq(s, 1, Len(t)) = t

(* "t in s" *)
Contains(s, t) == \E p \in 0..(Len(s) - Len(t)) : SubSeq(s, p + 1, p + Len(t)) = t

(* "'COORDS  '" and "'CORNERS '" *)
QuotedCoords == <<"'", "C", "O", "O", "R", "D", "S", " ", " ", "'">>

QuotedCorners == <<"'", "C", "O", "R", "N", "E", "R", "S", " ", "'">>

(* if "'COORDS  '" in line or "'CORNERS '" in line *)
IsKeywordLine(line) == Contains(line, QuotedCoords) \/ Contains(line, QuotedCorners)

(* the length of the longest prefix of s made of blanks: a greedy \s* *)
RECURSIVE BlanksLen(_)
BlanksLen(s) == IF s # <<>> /\ IsSpace(Head(s)) THEN 1 + BlanksLen(Tail(s)) ELSE 0

(* the header pattern tried at position p of the line: the quoted keyword, *)
(* one or more blanks, one or more digits                                  *)
HeaderAt(line, p) ==
    LET s == SubSeq(line, p + 1, Len(line))
        kw == IF StartsWith(s, QuotedCoords) THEN "COORDS"
              ELSE IF StartsWith(s, QuotedCorners) THEN "CORNERS" ELSE "none"
        rest == SubSeq(s, Len(QuotedCoords) + 1, Len(s))
        b == BlanksLen(rest)
        d == DigitsLen(SubSeq(rest, b + 1, Len(rest)))
    IN  IF kw # "none" /\ b >= 1 /\ d >= 1
        THEN [matched |-> TRUE, keyword |-> kw,
              n_values |-> NatVal(SubSeq(rest, b + 1, b + d))]
        ELSE [matched |-> FALSE, keyword |-> "none", n_values |-> 0]

(* re.search of the header pattern: the leftmost match, keyword =          *)
(* match.group(1).strip() and n_values = int(match.group(2))               *)
HeaderSearch(line) ==
    LET ps == {p \in 0..Len(line) : HeaderAt(line, p).matched}
    IN  IF ps = {} THEN HeaderAt(line, Len(line))
        ELSE HeaderAt(line, CHOOSE p \in ps : \A q \in ps : p <= q)

(* int(s) for the texts of the model: an optional sign and digits;         *)
(* anything else is a ValueError                                           *)
PyInt(s) ==
    LET sg == IF s # <<>> /\ s[1] \in {"+", "-"} THEN 1 ELSE 0
        body == SubSeq(s, sg + 1, Len(s))
    IN  IF body # <<>> /\ DigitsLen(body) = Len(body)
        THEN [ok |-> TRUE, value |-> IF sg = 1 /\ s[1] = "-" THEN -NatVal(body)
                                     ELSE NatVal(body)]
        ELSE [ok |-> FALSE, value |-> 0]

(* the dict appended to coords_data *)
CoordsRow(v) ==
    [i |-> PyInt(v[1]).value, j |-> PyInt(v[2]).value, k |-> PyInt(v[3]).value,
     cell_id |-> PyInt(v[4]).value, flag1 |-> PyInt(v[5]).value,
     flag2 |-> PyInt(v[6]).value, flag3 |-> PyInt(v[7]).value]

(* the keys of the dict appended to corners_data, in the order of values *)
CornerKeys ==
    <<"x1", "y1", "z1", "x2", "y2", "z2", "x3", "y3", "z3", "x4", "y4", "z4",
      "x5", "y5", "z5", "x6", "y6", "z6", "x7", "y7", "z7", "x8", "y8", "z8">>

(* the dict appended to corners_data *)
CornersRow(v) ==
    [key \in {CornerKeys[n] : n \in 1..Len(CornerKeys)} |->
        PyFloat(v[CHOOSE n \in 1..Len(CornerKeys) : CornerKeys[n] = key]).value]

(* a while loop that collects 7 values for every keyword *)
CollectMore_UntilSeven == Len(fgrid_values) < 7 /\ fgrid_i < Len(fgrid_lines)

(* while len(values) < n_values and i < len(lines) *)
CollectMore == Len(fgrid_values) < n_values /\ fgrid_i < Len(fgrid_lines)

(* a line without a keyword: i += 1 *)
ScanLine ==
    /\ xpc = "loop"
    /\ fgrid_i < Len(fgrid_lines)
    /\ ~IsKeywordLine(Strip(fgrid_lines[fgrid_i + 1]))
    /\ fgrid_i' = fgrid_i + 1
    /\ UNCHANGED <<codec_vars, scatter_vars, compare_vars, files_vars, gdecl_vars,
                   data_points, fgrid_lines, keyword, n_values, fgrid_values,
                   coords_data, corners_data, warnings, xpc>>

(* a line with a keyword: the header is parsed and the record is opened,   *)
(* or the warning is printed and the line is passed                        *)
ParseHeader ==
    /\ xpc = "loop"
    /\ fgrid_i < Len(fgrid_lines)
    /\ IsKeywordLine(Strip(fgrid_lines[fgrid_i + 1]))
    /\ fgrid_i' = fgrid_i + 1
    /\ LET match == HeaderSearch(Strip(fgrid_lines[fgrid_i + 1]))
       IN  IF match.matched
           THEN /\ keyword' = match.keyword
                /\ n_values' = match.n_values
                /\ fgrid_values' = <<>>
                /\ xpc' = "collect"
                /\ UNCHANGED warnings
           ELSE /\ warnings' = Append(warnings, "Could not parse header line")
                /\ UNCHANGED <<keyword, n_values, fgrid_values, xpc>>
    /\ UNCHANGED <<codec_vars, scatter_vars, compare_vars, files_vars, gdecl_vars,
                   data_points, fgrid_lines, coords_data, corners_data>>

(* values += lines[i].strip().split(); i += 1 *)
CollectLine ==
    /\ xpc = "collect"
    /\ CollectMore
    /\ fgrid_values' = fgrid_values \o Split(Strip(fgrid_lines[fgrid_i + 1]))
    /\ fgrid_i' = fgrid_i + 1
    /\ UNCHANGED <<codec_vars, scatter_vars, compare_vars, files_vars, gdecl_vars,
                   data_points, fgrid_lines, keyword, n_values, coords_data,
                   corners_data, warnings, xpc>>

(* the end of the while loop: the row is appended when the count is 7 or   *)
(* 24, int() or float() raising for a token that is no number, and the     *)
(* warning is printed otherwise                                            *)
EndRecord ==
    /\ xpc = "collect"
    /\ ~CollectMore
    /\ IF keyword = "COORDS"
       THEN IF Len(fgrid_values) = 7
            THEN IF \A n \in 1..7 : PyInt(fgrid_values[n]).ok
                 THEN /\ coords_data' = Append(coords_data, CoordsRow(fgrid_values))
                      /\ xpc' = "loop"
                      /\ UNCHANGED <<corners_data, warnings>>
                 ELSE /\ xpc' = "raised"
                      /\ UNCHANGED <<coords_data, corners_data, warnings>>
            ELSE /\ warnings' = Append(warnings, "COORDS block did not have 7 values")
                 /\ xpc' = "loop"
                 /\ UNCHANGED <<coords_data, corners_data>>
       ELSE IF Len(fgrid_values) = 24
            THEN IF \A n \in 1..24 : PyFloat(fgrid_values[n]).ok
                 THEN /\ corners_data' = Append(corners_data, CornersRow(fgrid_values))
                      /\ xpc' = "loop"
                      /\ UNCHANGED <<coords_data, warnings>>
                 ELSE /\ xpc' = "raised"
                      /\ UNCHANGED <<coords_data, corners_data, warnings>>
            ELSE /\ warnings' = Append(warnings, "CORNERS block did not have 24 values")
                 /\ xpc' = "loop"
                 /\ UNCHANGED <<coords_data, corners_data>>
    /\ UNCHANGED <<codec_vars, scatter_vars, compare_vars, files_vars, gdecl_vars,
                   data_points, fgrid_lines, fgrid_i, keyword, n_values, fgrid_values>>

(* the end of the file: the two frames are returned *)
ReturnFrames ==
    /\ xpc = "loop"
    /\ fgrid_i >= Len(fgrid_lines)
    /\ xpc' = "returned"
    /\ UNCHANGED <<codec_vars, scatter_vars, compare_vars, files_vars, gdecl_vars,
                   data_points, fgrid_lines, fgrid_i, keyword, n_values, fgrid_values,
                   coords_data, corners_data, warnings>>

(* the words, each after a blank, as a line of a file *)
RECURSIVE Spaced(_)
Spaced(ws) == IF ws = <<>> THEN <<"\n">> ELSE <<" ", Head(ws)>> \o Spaced(Tail(ws))

(* the lines of the FGRID files of the model: the headers of a COORDS      *)
(* record of 7 values and of a CORNERS record of 24, a COORDS keyword      *)
(* without a count, and lines of 7, 7, 3, 4 and 12 values                  *)
FgridTable == <<
    <<" ">> \o QuotedCoords \o <<" ", " ", "7", " ", "'", "I", "N", "T", "E", "'", "\n">>,
    <<" ">> \o QuotedCorners \o <<" ", "2", "4", " ", "'", "R", "E", "A", "L", "'", "\n">>,
    <<" ">> \o QuotedCoords \o <<"\n">>,
    Spaced(<<"1", "2", "3", "4", "0", "0", "0">>),
    Spaced(<<"2", "1", "1", "5", "1", "0", "0">>),
    Spaced(<<"1", "2", "3">>),
    Spaced(<<"4", "0", "0", "0">>),
    Spaced(<<"1", "2", "3", "4", "5", "6", "7", "8", "9", "0", "1", "2">>) >>

InitFgrid ==
    /\ array = <<>>
    /\ max_line_length = 80
    /\ i = 0
    /\ current_line = <<>>
    /\ compressed_lines = <<>>
    /\ epc = "off"
    /\ items = <<>>
    /\ file_exists = FALSE
    /\ file = <<>>
    /\ dres = NoResult
    /\ rres = NoResult
    /\ ScatterIdle
    /\ CompareIdle
    /\ FilesIdle
    /\ GdeclIdle
    /\ CountIdle
    /\ \E ix \in SeqsUpTo(1..Len(FgridTable), MaxFgridLines) :
          fgrid_lines = [n \in 1..Len(ix) |-> FgridTable[ix[n]]]
    /\ fgrid_i = 0
    /\ keyword = "none"
    /\ n_values = 0
    /\ fgrid_values = <<>>
    /\ coords_data = <<>>
    /\ corners_data = <<>>
    /\ warnings = <<>>
    /\ xpc = "loop"

NextFgrid == ScanLine \/ ParseHeader \/ CollectLine \/ EndRecord \/ ReturnFrames

SpecFgrid == InitFgrid /\ [][NextFgrid]_vars

(* the tokens of the lines a..b of the file *)
RECURSIVE TokensBetween(_, _, _)
TokensBetween(lines, a, b) ==
    IF a > b THEN <<>>
    ELSE Split(Strip(lines[a])) \o TokensBetween(lines, a + 1, b)

(* the number of lines after line h that are read for a record of n values: *)
(* the least number of whole lines that hold n tokens or more, and every    *)
(* line that is left when these are fewer                                   *)
LinesTaken(lines, h, n) ==
    LET enough == {m \in 0..(Len(lines) - h) : Len(TokensBetween(lines, h + 1, h + m)) >= n}
    IN  IF enough = {} THEN Len(lines) - h
        ELSE CHOOSE m \in enough : \A q \in enough : m <= q

(* the records read from line p + 1 on: the keyword and the count of each  *)
(* parsed header, with the tokens of the whole lines taken after it        *)
RECURSIVE Records(_, _)
Records(lines, p) ==
    IF p >= Len(lines) THEN <<>>
    ELSE LET line == Strip(lines[p + 1])
             h == HeaderSearch(line)
             m == LinesTaken(lines, p + 1, h.n_values)
         IN  IF ~IsKeywordLine(line) \/ ~h.matched THEN Records(lines, p + 1)
             ELSE <<[keyword |-> h.keyword, n_values |-> h.n_values,
                     values |-> TokensBetween(lines, p + 2, p + 1 + m)]>>
                  \o Records(lines, p + 1 + m)

IsCoordsRecord(r) == r.keyword = "COORDS" /\ Len(r.values) = 7

IsCornersRecord(r) == r.keyword = "CORNERS" /\ Len(r.values) = 24

(* the rows of the records of seq, in order *)
RowsOf(seq, Row(_)) == [n \in 1..Len(seq) |-> Row(seq[n].values)]

(* some record of 7 or 24 collected tokens holds a token that is no number *)
SomeTokenRaises(lines) ==
    \E n \in 1..Len(Records(lines, 0)) :
        LET r == Records(lines, 0)[n]
        IN  \/ IsCoordsRecord(r) /\ \E t \in 1..7 : ~PyInt(r.values[t]).ok
            \/ IsCornersRecord(r) /\ \E t \in 1..24 : ~PyFloat(r.values[t]).ok

(* C22 as stated: the values taken for a record are no more than the       *)
(* count its header declares.                                              *)
C22_Original ==
    (xpc \in {"loop", "returned"} /\ keyword # "none") =>
        Len(fgrid_values) <= n_values

(* C22: for a COORDS or CORNERS header that declares n values,             *)
(* extract_coordinates_from_fgrid takes the tokens of the following lines, *)
(* whole line after whole line and whatever the lines hold, until n tokens *)
(* or more are collected or the file ends, so that more than n tokens are  *)
(* taken when the last of these lines holds more than were missing; the    *)
(* record gives one coords row (i, j, k, cell_id, flag1, flag2, flag3 in   *)
(* token order) when the keyword is COORDS and exactly 7 tokens were       *)
(* collected, one corners row when the keyword is CORNERS and exactly 24   *)
(* were collected, and no row otherwise; when the function returns, the    *)
(* rows are those of such records, in input order.                         *)
C22_RecordConsumption ==
    /\ xpc = "collect" =>
          \E h \in 1..fgrid_i :
              /\ HeaderSearch(Strip(fgrid_lines[h])) =
                    [matched |-> TRUE, keyword |-> keyword, n_values |-> n_values]
              /\ fgrid_values = TokensBetween(fgrid_lines, h + 1, fgrid_i)
              /\ fgrid_i - h <= LinesTaken(fgrid_lines, h, n_values)
    /\ xpc = "returned" =>
          /\ coords_data = RowsOf(SelectSeq(Records(fgrid_lines, 0), IsCoordsRecord), CoordsRow)
          /\ corners_data = RowsOf(SelectSeq(Records(fgrid_lines, 0), IsCornersRecord), CornersRow)
    /\ xpc = "raised" => SomeTokenRaises(fgrid_lines)

(* a COORDS record of 7 values on two lines, of 3 and of 4 values *)
C22_Witness ==
    /\ xpc = "returned"
    /\ fgrid_lines = <<FgridTable[1], FgridTable[6], FgridTable[7]>>
    /\ coords_data = <<[i |-> 1, j |-> 2, k |-> 3, cell_id |-> 4,
                        flag1 |-> 0, flag2 |-> 0, flag3 |-> 0]>>
    /\ corners_data = <<>>
    /\ warnings = <<>>

(* the numbers of the lines that hold a keyword *)
HeaderLines == {h \in 1..Len(fgrid_lines) : IsKeywordLine(Strip(fgrid_lines[h]))}

(* the tokens between the header on line h and the next line that holds a  *)
(* keyword, or the end of the file                                         *)
RecordTokens(h) ==
    LET later == {g \in HeaderLines : g > h}
        next == IF later = {} THEN Len(fgrid_lines) + 1
                ELSE CHOOSE g \in later : \A q \in later : g <= q
    IN  TokensBetween(fgrid_lines, h + 1, next - 1)

Parseable(h) == HeaderSearch(Strip(fgrid_lines[h])).matched

(* the header on line h declares 7 values for COORDS or 24 for CORNERS and *)
(* that many tokens follow it before the next header                       *)
WellFormedRecord(h, kw) ==
    /\ h \in HeaderLines
    /\ Parseable(h)
    /\ HeaderSearch(Strip(fgrid_lines[h])).keyword = kw
    /\ HeaderSearch(Strip(fgrid_lines[h])).n_values = (IF kw = "COORDS" THEN 7 ELSE 24)
    /\ Len(RecordTokens(h)) = HeaderSearch(Strip(fgrid_lines[h])).n_values

(* the header on line h is parsed and the number of tokens that follow it  *)
(* before the next header is not 7 (COORDS) or 24 (CORNERS)                *)
WrongCount(h) ==
    /\ h \in HeaderLines
    /\ Parseable(h)
    /\ Len(RecordTokens(h)) #
          (IF HeaderSearch(Strip(fgrid_lines[h])).keyword = "COORDS" THEN 7 ELSE 24)

(* every token of a line without a keyword is an integer *)
IntegerValues ==
    \A h \in (1..Len(fgrid_lines)) \ HeaderLines :
        \A t \in 1..Len(Split(Strip(fgrid_lines[h]))) :
            PyInt(Split(Strip(fgrid_lines[h]))[t]).ok

FgridEnded == xpc \in {"returned", "raised"}

(* C23 as stated: for a file whose values are integers, the function       *)
(* returns, with one warning for each header that cannot be parsed and for *)
(* each record with a wrong number of values, and with no row for them.    *)
C23_Original ==
    (FgridEnded /\ IntegerValues) =>
        /\ xpc = "returned"
        /\ Len(warnings) = Cardinality({h \in HeaderLines : ~Parseable(h) \/ WrongCount(h)})
        /\ Len(coords_data) <= Cardinality({h \in HeaderLines : WellFormedRecord(h, "COORDS")})
        /\ Len(corners_data) <= Cardinality({h \in HeaderLines : WellFormedRecord(h, "CORNERS")})

(* the well-formed records of keyword kw from line h on *)
RECURSIVE WellFormedRecords(_, _)
WellFormedRecords(h, kw) ==
    IF h > Len(fgrid_lines) THEN <<>>
    ELSE (IF WellFormedRecord(h, kw) THEN <<[values |-> RecordTokens(h)]>> ELSE <<>>)
         \o WellFormedRecords(h + 1, kw)

(* the elements of a occur in b in the same order *)
RECURSIVE IsSubSeq(_, _)
IsSubSeq(a, b) ==
    IF a = <<>> THEN TRUE
    ELSE IF b = <<>> THEN FALSE
    ELSE IF Head(a) = Head(b) THEN IsSubSeq(Tail(a), Tail(b))
    ELSE IsSubSeq(a, Tail(b))

(* C24 as stated: when the function returns, every well-formed record has  *)
(* its row in the output, whatever precedes it.                            *)
C24_Original ==
    (xpc = "returned" /\ IntegerValues) =>
        /\ IsSubSeq(RowsOf(WellFormedRecords(1, "COORDS"), CoordsRow), coords_data)
        /\ IsSubSeq(RowsOf(WellFormedRecords(1, "CORNERS"), CornersRow), corners_data)

----------------------------------------------------------------------------
(* generate_full_porosity_data_simple, and generate_full_porosity as a     *)
(* function of its inputs                                                  *)

(* the 1-based position that index id - 1 names in an array of total       *)
(* elements: a negative index counts from the end of the array             *)
Position(id, total) == IF id >= 1 THEN id ELSE id + total

(* index id - 1 is within the bounds of an array of total elements *)
IndexInBounds(id, total) == 1 - total <= id /\ id <= total

(* the values can be broadcast to the shape of the index array *)
Broadcastable(ids, vals) == Len(vals) = Len(ids) \/ Len(vals) = 1

(* full_porosity[active_cell_ids - 1] = porosity_values without any check  *)
(* before it: the pairs are written in input order, a single value being   *)
(* written for every id                                                    *)
RECURSIVE AssignSimple(_, _, _, _)
AssignSimple(arr, ids, vals, k) ==
    IF k > Len(ids) THEN arr
    ELSE AssignSimple([arr EXCEPT ![Position(ids[k], Len(arr))] =
                          IF Len(vals) = 1 THEN vals[1] ELSE vals[k]],
                      ids, vals, k + 1)

(* np.load of the two input files *)
LoadSimple ==
    /\ fn = "generate_full_porosity_data_simple"
    /\ spc = "start"
    /\ IF ~actid_exists
       THEN /\ serr' = [kind |-> "FileNotFoundError: actid", a |-> 0, b |-> 0, total |-> 0]
            /\ spc' = "raised"
       ELSE IF ~poro_exists
       THEN /\ serr' = [kind |-> "FileNotFoundError: poro", a |-> 0, b |-> 0, total |-> 0]
            /\ spc' = "raised"
       ELSE /\ serr' = serr
            /\ spc' = "loaded"
    /\ UNCHANGED <<codec_vars, gdecl_vars, fgrid_vars, data_points, compare_vars,
                   files_vars, fn, use_compression, actid_exists, poro_exists,
                   active_cell_ids, porosity_values, total_cells, full_porosity,
                   npy_saved, dat_written>>

(* the dense array is created and filled: numpy raises an IndexError for   *)
(* an index out of bounds and a ValueError for values it cannot broadcast, *)
(* one of the two when both apply                                          *)
FillSimple ==
    /\ fn = "generate_full_porosity_data_simple"
    /\ spc = "loaded"
    /\ LET in_bounds == \A k \in 1..Len(active_cell_ids) :
                            IndexInBounds(active_cell_ids[k], total_cells)
           fits == Broadcastable(active_cell_ids, porosity_values)
       IN  IF in_bounds /\ fits
           THEN /\ full_porosity' = AssignSimple(Zeros(total_cells), active_cell_ids,
                                                 porosity_values, 1)
                /\ spc' = "filled"
                /\ serr' = serr
           ELSE /\ \E kind \in ((IF in_bounds THEN {} ELSE {"IndexError: index out of bounds"})
                                \cup (IF fits THEN {} ELSE {"ValueError: shape mismatch"})) :
                       serr' = [kind |-> kind, a |-> 0, b |-> 0, total |-> 0]
                /\ spc' = "raised"
                /\ full_porosity' = full_porosity
    /\ UNCHANGED <<codec_vars, gdecl_vars, fgrid_vars, data_points, compare_vars,
                   files_vars, fn, use_compression, actid_exists, poro_exists,
                   active_cell_ids, porosity_values, total_cells, npy_saved, dat_written>>

(* the calls of the simple variant: ids from -1 to one above the grid *)
SimpleCalls ==
    {[ids |-> a, values |-> v, total |-> n] :
        a \in SeqsUpTo((-1)..(MaxCells + 1), MaxIds),
        v \in SeqsUpTo(Porosities, MaxIds),
        n \in 1..MaxCells}

InitSimple ==
    /\ array = <<>>
    /\ max_line_length = 80
    /\ i = 0
    /\ current_line = <<>>
    /\ compressed_lines = <<>>
    /\ epc = "off"
    /\ items = <<>>
    /\ file_exists = FALSE
    /\ file = <<>>
    /\ dres = NoResult
    /\ rres = NoResult
    /\ fn = "generate_full_porosity_data_simple"
    /\ use_compression \in BOOLEAN
    /\ \E c \in SimpleCalls :
          /\ total_cells = c.total
          /\ \/ /\ actid_exists = TRUE
                /\ poro_exists = TRUE
                /\ active_cell_ids = c.ids
                /\ porosity_values = c.values
             \/ /\ actid_exists = FALSE
                /\ poro_exists = TRUE
                /\ active_cell_ids = <<>>
                /\ porosity_values = c.values
                /\ c.ids = <<>>
             \/ /\ actid_exists = TRUE
                /\ poro_exists = FALSE
                /\ active_cell_ids = c.ids
                /\ porosity_values = <<>>
                /\ c.values = <<>>
    /\ spc = "start"
    /\ full_porosity = <<>>
    /\ serr = NoError
    /\ npy_saved = FALSE
    /\ dat_written = FALSE
    /\ CompareIdle
    /\ FilesIdle
    /\ GdeclIdle
    /\ FgridIdle
    /\ CountIdle

NextSimple == LoadSimple \/ FillSimple \/ Save \/ WriteDat

SpecSimple == InitSimple /\ [][NextSimple]_vars

(* generate_full_porosity as a function of its inputs: the exception it    *)
(* raises or the dense array it returns                                    *)
generate_full_porosity(a_exists, p_exists, ids, vals, total) ==
    IF ~a_exists THEN Raised("FileNotFoundError: actid")
    ELSE IF ~p_exists THEN Raised("FileNotFoundError: poro")
    ELSE IF LengthsDiffer(ids, vals) THEN Raised("ValueError: Mismatch")
    ELSE IF ids = <<>> THEN Raised("ValueError: zero-size array to reduction operation")
    ELSE IF OutOfRange(MinOf(ids), MaxOf(ids), total)
    THEN Raised("ValueError: Cell IDs out of range")
    ELSE Returned(AssignFrom(Zeros(total), ids, vals, 1))

(* the outcome of generate_full_porosity for the inputs of the state *)
ValidatedOutcome ==
    generate_full_porosity(actid_exists, poro_exists, active_cell_ids,
                           porosity_values, total_cells)

(* C25 as stated, for one id or more: generate_full_porosity_data_simple   *)
(* and generate_full_porosity both fail or both return the same dense      *)
(* array.                                                                  *)
C25_Original ==
    (/\ fn = "generate_full_porosity_data_simple"
     /\ ScatterEnded
     /\ active_cell_ids # <<>>) =>
        \/ spc = "raised" /\ ValidatedOutcome.status = "raised"
        \/ /\ spc = "returned"
           /\ ValidatedOutcome = Returned(full_porosity)

(* C26 as stated: generate_full_porosity succeeds for as many ids as       *)
(* values and every id within [1, total_cells], the empty id list          *)
(* included, for which it returns the array of total_cells zeros.          *)
C26_Original ==
    (/\ fn = "generate_full_porosity"
     /\ ScatterEnded
     /\ actid_exists /\ poro_exists
     /\ Len(active_cell_ids) = Len(porosity_values)
     /\ \A k \in 1..Len(active_cell_ids) :
           1 <= active_cell_ids[k] /\ active_cell_ids[k] <= total_cells) =>
        /\ spc = "returned"
        /\ active_cell_ids = <<>> => full_porosity = Zeros(total_cells)

----------------------------------------------------------------------------
(* decompress_cmg_format_to_array and read_cmg_format_file side by side *)

----------------------------------------------------------------------------
(* count_cmg_data_points_accurate *)

MaxCountLines == 3

(* a count that takes a run for one data point *)
CountToken_RunAsOne(token) ==
    IF Match(token).matched \/ PyFloat(token).ok THEN 1 ELSE 0

(* the body of "for token in tokens": the count of a run, 1 for a number,  *)
(* nothing for another token                                               *)
CountToken(token) ==
    IF Match(token).matched THEN NatVal(Match(token).group1)
    ELSE IF PyFloat(token).ok THEN 1 ELSE 0

RECURSIVE CountTokens(_)
CountTokens(tokens) ==
    IF tokens = <<>> THEN 0 ELSE CountToken(Head(tokens)) + CountTokens(Tail(tokens))

(* the body of "for line in f": blank and '**' lines are skipped *)
CountLine(raw) ==
    LET line == Strip(raw)
    IN  IF line = <<>> \/ StartsWithComment(line) THEN 0 ELSE CountTokens(Split(line))

RECURSIVE CountLines(_)
CountLines(lines) ==
    IF lines = <<>> THEN 0 ELSE CountLine(Head(lines)) + CountLines(Tail(lines))

(* the count, or the 0 returned after "except FileNotFoundError" *)
count_cmg_data_points_accurate(exists, lines) ==
    IF ~exists THEN 0 ELSE CountLines(lines)

(* a caller counts the data points of the file *)
CountDataPoints ==
    /\ epc \in {"idle", "written"}
    /\ data_points = NotCounted
    /\ data_points' = [returned |-> TRUE,
                       value |-> count_cmg_data_points_accurate(file_exists, file)]
    /\ UNCHANGED <<codec_vars, scatter_vars, compare_vars, files_vars, gdecl_vars,
                   fgrid_vars>>

(* the lines of the documents that are counted, each with the number of    *)
(* values it is written to hold: "48*0 3*1", "2.5 abc -1", "** 3*1", a     *)
(* blank line, "3*1.5abc" and "3*"                                         *)
CountTable == <<
    [text |-> <<"4", "8", "*", "0", " ", "3", "*", "1", "\n">>, count |-> 51],
    [text |-> <<"2", ".", "5", " ", "a", "b", "c", " ", "-", "1", "\n">>, count |-> 2],
    [text |-> <<"*", "*", " ", "3", "*", "1", "\n">>, count |-> 0],
    [text |-> <<" ", "\n">>, count |-> 0],
    [text |-> <<"3", "*", "1", ".", "5", "a", "b", "c", "\n">>, count |-> 3],
    [text |-> <<"3", "*", "\n">>, count |-> 3] >>

InitCount ==
    /\ array = <<>>
    /\ max_line_length = 80
    /\ i = 0
    /\ current_line = <<>>
    /\ compressed_lines = <<>>
    /\ epc = "idle"
    /\ \/ /\ items \in SeqsUpTo(1..Len(CountTable), MaxCountLines)
          /\ file_exists = TRUE
       \/ /\ items = <<>>
          /\ file_exists = FALSE
    /\ file = [k \in 1..Len(items) |-> CountTable[items[k]].text]
    /\ dres = NoResult
    /\ rres = NoResult
    /\ ScatterIdle
    /\ CompareIdle
    /\ FilesIdle
    /\ GdeclIdle
    /\ FgridIdle
    /\ CountIdle

NextCount == Decompress \/ CountDataPoints

SpecCount == InitCount /\ [][NextCount]_vars

(* the sum of the counts the table gives for the lines of the document *)
RECURSIVE TableCount(_)
TableCount(its) ==
    IF its = <<>> THEN 0 ELSE CountTable[Head(its)].count + TableCount(Tail(its))

====
